---- MODULE Spec2Model ----
(***************************************************************************)
(* A model of the RISC-V emulator "thing": the little-endian codec, the    *)
(* memory and the address-routed bus of the platform, the reservation-set  *)
(* tracker, the register file, the instruction decoder and the handlers,   *)
(* and the UART.                                                           *)
(*                                                                         *)
(* Machine integers are sequences of 16-bit limbs, the least significant   *)
(* limb first, so that 64-bit values stay within the checker's integers.   *)
(* Bytes in memory and in byte arrays are the numbers 0..255.              *)
(***************************************************************************)
EXTENDS Integers, Sequences, FiniteSets, TLC

(***************************************************************************)
(* Machine integers                                                        *)
(*                                                                         *)
(* A value of u16, u32, u64 (and of i32, i64, in two's complement) is the  *)
(* sequence of its 16-bit limbs, least significant limb first; a value of  *)
(* u8 is one limb below 256.  Element 1 holds bits 15..0.                  *)
(***************************************************************************)

Min(a, b) == IF a < b THEN a ELSE b

NLimbs(n) == (n + 15) \div 16

BvZero(n) == [j \in 1..NLimbs(n) |-> 0]

BvOnes(n) == [j \in 1..NLimbs(n) |-> IF n < 16 THEN (2 ^ n) - 1 ELSE 65535]

\* The n-bit value of a number below 2^31 (n = 8 or a multiple of 16).
NatToBv(x, n) ==
    [j \in 1..NLimbs(n) |->
        IF j = 1 THEN (IF n < 16 THEN x % (2 ^ n) ELSE x % 65536)
        ELSE IF j = 2 THEN x \div 65536
        ELSE 0]

\* The n-bit value written with the hexadecimal digits d, most significant
\* digit first.
Hex(d, n) ==
    LET nib(k) == IF k < Len(d) /\ 4 * k < n THEN d[Len(d) - k] ELSE 0
    IN  [j \in 1..NLimbs(n) |->
            nib(4 * (j - 1)) + 16 * nib(4 * (j - 1) + 1)
                + 256 * nib(4 * (j - 1) + 2) + 4096 * nib(4 * (j - 1) + 3)]

\* Bit i (0 is the least significant) of a value.
BvBit(a, i) == (a[(i \div 16) + 1] \div (2 ^ (i % 16))) % 2

\* The number of a value below `limit` (limit <= 2^30), and `limit` itself
\* for every larger value.
BvToNatCapped(v, limit) ==
    IF \E j \in 3..Len(v) : v[j] # 0 THEN limit
    ELSE IF Len(v) >= 2 /\ v[2] >= 16384 THEN limit
    ELSE Min(v[1] + (IF Len(v) >= 2 THEN 65536 * v[2] ELSE 0), limit)

\* Bitwise operations on two limbs.
RECURSIVE AndLimb(_, _)
AndLimb(x, y) ==
    IF x = 0 \/ y = 0 THEN 0
    ELSE (x % 2) * (y % 2) + 2 * AndLimb(x \div 2, y \div 2)

BvAnd(a, b) == [j \in 1..Len(a) |-> AndLimb(a[j], b[j])]

BvOr(a, b) == [j \in 1..Len(a) |-> a[j] + b[j] - AndLimb(a[j], b[j])]

BvXor(a, b) == [j \in 1..Len(a) |-> a[j] + b[j] - 2 * AndLimb(a[j], b[j])]

\* ! of u16, u32, u64
BvNot(a) == [j \in 1..Len(a) |-> 65535 - a[j]]

\* a + b + c modulo 2^(16 * Len(a)) from limb j on; c is the carry in.
RECURSIVE BvAddC(_, _, _, _)
BvAddC(a, b, j, c) ==
    IF j > Len(a) THEN <<>>
    ELSE <<(a[j] + b[j] + c) % 65536>>
            \o BvAddC(a, b, j + 1, (a[j] + b[j] + c) \div 65536)

\* The carry out of a + b + c.
RECURSIVE BvCarry(_, _, _, _)
BvCarry(a, b, j, c) ==
    IF j > Len(a) THEN c
    ELSE BvCarry(a, b, j + 1, (a[j] + b[j] + c) \div 65536)

\* wrapping_add, wrapping_sub of u16, u32, u64
BvAdd(a, b) == BvAddC(a, b, 1, 0)

BvSub(a, b) == BvAddC(a, BvNot(b), 1, 1)

\* Whether the unsigned a + b overflows the width, whether a - b underflows.
BvAddOverflows(a, b) == BvCarry(a, b, 1, 0) = 1

BvSubUnderflows(a, b) == BvCarry(a, BvNot(b), 1, 1) = 0

\* Unsigned and signed (two's complement) comparison.
BvULess(a, b) == BvSubUnderflows(a, b)

BvIsNeg(a) == a[Len(a)] >= 32768

BvSLess(a, b) ==
    IF BvIsNeg(a) # BvIsNeg(b) THEN BvIsNeg(a) ELSE BvULess(a, b)

\* a << s, a >> s for 0 <= s < width, with `fill` (0 or 65535) as the limbs
\* above the most significant one.
ShlBits(a, s) ==
    LET q == s \div 16
        r == s % 16
        at(j) == IF j >= 1 THEN a[j] ELSE 0
    IN  [j \in 1..Len(a) |->
            ((at(j - q) * (2 ^ r)) % 65536)
                + (at(j - q - 1) \div (2 ^ (16 - r)))]

ShrBits(a, s, fill) ==
    LET q == s \div 16
        r == s % 16
        at(j) == IF j <= Len(a) THEN a[j] ELSE fill
    IN  [j \in 1..Len(a) |->
            (at(j + q) \div (2 ^ r))
                + ((at(j + q + 1) % (2 ^ r)) * (2 ^ (16 - r)))]

\* wrapping_shl, wrapping_shr of an unsigned type (the shift amount is taken
\* modulo the width), wrapping_shr of a signed type (the sign is shifted in).
BvShl(a, s) == ShlBits(a, s % (16 * Len(a)))

BvShr(a, s) == ShrBits(a, s % (16 * Len(a)), 0)

BvSar(a, s) ==
    ShrBits(a, s % (16 * Len(a)), IF BvIsNeg(a) THEN 65535 ELSE 0)

\* `as` casts between u16/u32/u64 and i16/i32/i64: to a narrower type
\* (truncation), from an unsigned type to a wider one (zero extension), from
\* a signed type to a wider one (sign extension).
BvTrunc(a, n) == [j \in 1..NLimbs(n) |-> a[j]]

BvZext(a, n) == [j \in 1..NLimbs(n) |-> IF j <= Len(a) THEN a[j] ELSE 0]

BvSext(a, n) ==
    [j \in 1..NLimbs(n) |->
        IF j <= Len(a) THEN a[j] ELSE IF BvIsNeg(a) THEN 65535 ELSE 0]

\* Casts from and to u8 / i8.
U8ToBv(x, n) == [j \in 1..NLimbs(n) |-> IF j = 1 THEN x[1] ELSE 0]

I8ToBv(x, n) ==
    [j \in 1..NLimbs(n) |->
        IF x[1] < 128 THEN (IF j = 1 THEN x[1] ELSE 0)
        ELSE (IF j = 1 THEN 65280 + x[1] ELSE 65535)]

BvToU8(a) == <<a[1] % 256>>

(***************************************************************************)
(* State                                                                   *)
(*                                                                         *)
(* registers, pc       Hart::registers, Hart::pc                           *)
(* memory              Memory::memory, the bytes at offsets 0..SIZE-1      *)
(* reservation_sets    Platform::reservation_sets                          *)
(* phase               where main() / emulate() stands: "init",            *)
(*                     "dtb_loaded", "kernel_loaded", "running", and       *)
(*                     "exited" (main returned an error), "panicked"       *)
(* steps               the number of operations performed so far           *)
(* uart_registers      Uart::registers, the bits of each register          *)
(* output              the bytes written to Uart::output so far            *)
(* op                  the last operation, its arguments and its result    *)
(***************************************************************************)
VARIABLES registers, pc, memory, reservation_sets, uart_registers, output,
          phase, steps, op

vars ==
    <<registers, pc, memory, reservation_sets, uart_registers, output, phase,
      steps, op>>

\* The record of an operation; the fields an operation does not use keep
\* these values.
NoOp ==
    [name |-> "none", hart |-> 0, address |-> <<>>, size |-> 0,
     value |-> <<>>, bytes |-> <<>>, ok |-> FALSE, err |-> "none",
     ret |-> <<>>, word |-> <<>>, prev |-> <<"none", FALSE>>]

\* The record of the operation `name` that follows the operation o.
After(o, name) == [NoOp EXCEPT !.name = name, !.prev = <<o.name, o.ok>>]

(***************************************************************************)
(* lebytes: the little-endian codec of u8, u16, u32, u64                   *)
(***************************************************************************)

\* to_le_bytes with the bytes in the opposite order (big-endian).
to_be_bytes(v, W) ==
    [i \in 1..W |->
        IF (W - i) % 2 = 0 THEN v[((W - i) \div 2) + 1] % 256
        ELSE v[((W - i) \div 2) + 1] \div 256]

\* to_le_bytes of a value of W bytes (W = <T as LeBytes>::SIZE)
to_le_bytes(v, W) ==
    [i \in 1..W |->
        IF i % 2 = 1 THEN v[((i - 1) \div 2) + 1] % 256
        ELSE v[((i - 1) \div 2) + 1] \div 256]

\* from_le_bytes of W = Len(input) bytes
from_le_bytes(input) ==
    [j \in 1..((Len(input) + 1) \div 2) |->
        input[2 * j - 1]
            + (IF 2 * j <= Len(input) THEN 256 * input[2 * j] ELSE 0)]

(***************************************************************************)
(* platform: Memory and the Bus of the Platform                            *)
(***************************************************************************)

\* The memory is scaled down from 0x1000_0000 bytes; its base is the
\* program's.
MEMORY_SIZE == 32

MEMORY_BASE == Hex(<<8, 0, 0, 0, 0, 0, 0, 0>>, 64)

MEMORY_END == BvAdd(MEMORY_BASE, NatToBv(MEMORY_SIZE, 64))

\* Memory::default(): start, end, and the zeroed bytes
memory_start == MEMORY_BASE

memory_end == MEMORY_END

heap_allocate_memory == [i \in 0..(MEMORY_SIZE - 1) |-> 0]

\* (start..end).contains(&x) on usize
RangeContains(start, end, x) == ~BvULess(x, start) /\ BvULess(x, end)

\* Results of bus operations: Ok(value), Err(kind), or a panic of the thread.
BusOk(v, m) == [kind |-> "Ok", err |-> "none", value |-> v, memory |-> m]

BusErr(e, m) == [kind |-> "Err", err |-> e, value |-> <<>>, memory |-> m]

BusPanic(m) == [kind |-> "Panic", err |-> "none", value |-> <<>>, memory |-> m]

\* impl Bus for Memory: read of a W-byte value at offset `address`.  The
\* slice memory[address..address + W] panics when it does not lie in the
\* buffer.
MemoryRead(m, address, W) ==
    LET off == BvToNatCapped(address, MEMORY_SIZE)
    IN  IF off + W > MEMORY_SIZE THEN BusPanic(m)
        ELSE BusOk(from_le_bytes([i \in 1..W |-> m[off + i - 1]]), m)

\* Memory::write that stores at the offset rounded down to a multiple of W.
MemoryWriteAligned(m, address, value, W) ==
    LET off == BvToNatCapped(address, MEMORY_SIZE)
        at == off - (off % W)
        tmp == to_le_bytes(value, W)
    IN  IF off + W > MEMORY_SIZE THEN BusPanic(m)
        ELSE BusOk(<<>>,
                   [i \in 0..(MEMORY_SIZE - 1) |->
                       IF i >= at /\ i < at + W THEN tmp[i - at + 1]
                       ELSE m[i]])

\* impl Bus for Memory: write.  The W bytes of to_le_bytes(value) are copied
\* to memory[address..address + W], which panics when out of the buffer.
MemoryWrite(m, address, value, W) ==
    LET off == BvToNatCapped(address, MEMORY_SIZE)
        tmp == to_le_bytes(value, W)
    IN  IF off + W > MEMORY_SIZE THEN BusPanic(m)
        ELSE BusOk(<<>>,
                   [i \in 0..(MEMORY_SIZE - 1) |->
                       IF i >= off /\ i < off + W THEN tmp[i - off + 1]
                       ELSE m[i]])

\* impl Bus for Platform: read
PlatformRead(m, address, W) ==
    IF RangeContains(memory_start, memory_end, address)
    THEN MemoryRead(m, BvSub(address, MEMORY_BASE), W)
    ELSE BusErr("Unimplemented", m)

\* impl Bus for Platform: write
PlatformWrite(m, address, value, W) ==
    IF RangeContains(memory_start, memory_end, address)
    THEN MemoryWrite(m, BvSub(address, MEMORY_BASE), value, W)
    ELSE BusErr("Unimplemented", m)

(***************************************************************************)
(* platform: the reservation sets                                          *)
(*                                                                         *)
(* Arithmetic on usize / u64 that is not written as wrapping_* panics on   *)
(* overflow in a build with overflow checks and wraps in a build without;  *)
(* `debug` says which build it is.                                         *)
(***************************************************************************)

\* ReservationSet::default()
ReservationSetDefault ==
    [address |-> BvZero(64), size |-> 0, valid |-> FALSE, hart_id |-> 0]

Usize(n) == NatToBv(n, 64)

\* claim_reservation_set that keeps a reservation that is still valid.
claim_reservation_set_keep_valid(sets, hart_id, address, size) ==
    IF hart_id >= Len(sets) THEN [panic |-> TRUE, sets |-> sets]
    ELSE IF sets[hart_id + 1].valid THEN [panic |-> FALSE, sets |-> sets]
    ELSE [panic |-> FALSE,
          sets |-> [sets EXCEPT ![hart_id + 1] =
                       [address |-> address, size |-> size, valid |-> TRUE,
                        hart_id |-> hart_id]]]

\* Platform::claim_reservation_set; indexing reservation_sets[hart_id]
\* panics when there is no such element.
claim_reservation_set(sets, hart_id, address, size) ==
    IF hart_id >= Len(sets) THEN [panic |-> TRUE, sets |-> sets]
    ELSE [panic |-> FALSE,
          sets |-> [sets EXCEPT ![hart_id + 1] =
                       [address |-> address, size |-> size, valid |-> TRUE,
                        hart_id |-> hart_id]]]

\* The range test both reservation operations make:
\*   start = reservation_set.address - (size - 1)
\*   end = reservation_set.address + reservation_set.size
\*   (start..end).contains(&address)
ReservationOverflows(r, size) ==
    \/ size = 0
    \/ BvSubUnderflows(r.address, Usize(size - 1))
    \/ BvAddOverflows(r.address, Usize(r.size))

ReservationContains(r, address, size) ==
    RangeContains(BvSub(r.address, Usize(size - 1)),
                  BvAdd(r.address, Usize(r.size)), address)

\* The builds a call with these arguments can tell apart: both when the
\* range computation for some valid reservation overflows, else one.
Builds(sets, size) ==
    IF \E i \in 1..Len(sets) :
          sets[i].valid /\ ReservationOverflows(sets[i], size)
    THEN BOOLEAN
    ELSE {FALSE}

\* The loop body that does not skip the reservation of the storing hart.
InvalidateOneAnyHart(r, hart_id, address, size) ==
    IF ~r.valid THEN r
    ELSE IF ReservationContains(r, address, size)
         THEN [r EXCEPT !.valid = FALSE]
         ELSE r

\* The loop body of invalidate_reservation_sets for one element.
InvalidateOne(r, hart_id, address, size) ==
    IF r.hart_id = hart_id THEN r
    ELSE IF ~r.valid THEN r
    ELSE IF ReservationContains(r, address, size)
         THEN [r EXCEPT !.valid = FALSE]
         ELSE r

\* invalidate_reservation_sets that tests the first stored byte only
\* (start = reservation_set.address).
invalidate_first_byte_only(sets, hart_id, address, size, debug) ==
    [panic |-> FALSE,
     sets |-> [i \in 1..Len(sets) |->
                 InvalidateOne(sets[i], hart_id, address, 1)]]

\* Platform::invalidate_reservation_sets.  The elements before the first one
\* whose range computation overflows (with overflow checks) are processed.
invalidate_reservation_sets(sets, hart_id, address, size, debug) ==
    LET Stops(i) ==
            /\ debug
            /\ sets[i].hart_id # hart_id
            /\ sets[i].valid
            /\ ReservationOverflows(sets[i], size)
        stopped == {i \in 1..Len(sets) : Stops(i)}
        first == IF stopped = {} THEN Len(sets) + 1
                 ELSE CHOOSE i \in stopped : \A j \in stopped : i <= j
    IN  [panic |-> stopped # {},
         sets |-> [i \in 1..Len(sets) |->
                     IF i < first
                     THEN InvalidateOne(sets[i], hart_id, address, size)
                     ELSE sets[i]]]

\* check_invalidate_reservation_set that leaves the reservation valid.
check_reservation_set_only(sets, hart_id, address, size, debug) ==
    IF hart_id >= Len(sets)
    THEN [panic |-> TRUE, ret |-> FALSE, sets |-> sets]
    ELSE [panic |-> FALSE,
          ret |-> sets[hart_id + 1].valid
                    /\ ReservationContains(sets[hart_id + 1], address, size),
          sets |-> sets]

\* Platform::check_invalidate_reservation_set
check_invalidate_reservation_set(sets, hart_id, address, size, debug) ==
    IF hart_id >= Len(sets)
    THEN [panic |-> TRUE, ret |-> FALSE, sets |-> sets]
    ELSE LET r == sets[hart_id + 1]
         IN  IF ~r.valid
             THEN [panic |-> FALSE, ret |-> FALSE, sets |-> sets]
             ELSE IF debug /\ ReservationOverflows(r, size)
             THEN [panic |-> TRUE, ret |-> FALSE, sets |-> sets]
             ELSE IF ~ReservationContains(r, address, size)
             THEN [panic |-> FALSE, ret |-> FALSE, sets |-> sets]
             ELSE [panic |-> FALSE, ret |-> TRUE,
                   sets |-> [sets EXCEPT ![hart_id + 1].valid = FALSE]]

\* write_from_hart that writes without invalidating any reservation.
write_without_invalidate(sets, m, hart_id, address, value, W, debug) ==
    LET w == PlatformWrite(m, address, value, W)
    IN  [kind |-> w.kind, err |-> w.err, memory |-> w.memory, sets |-> sets]

\* Platform::write_from_hart: the reservations of the other harts are
\* invalidated, then the value is written through the bus.
write_from_hart(sets, m, hart_id, address, value, W, debug) ==
    LET inv == invalidate_reservation_sets(sets, hart_id, address, W, debug)
        w == PlatformWrite(m, address, value, W)
    IN  IF inv.panic
        THEN [kind |-> "Panic", err |-> "none", memory |-> m,
              sets |-> inv.sets]
        ELSE [kind |-> w.kind, err |-> w.err, memory |-> w.memory,
              sets |-> inv.sets]

(***************************************************************************)
(* The codec alone: a value of each width is encoded, then decoded.        *)
(***************************************************************************)

(***************************************************************************)
(* uart: the 16550 register file and its bus interface                     *)
(***************************************************************************)

\* UartRegisters::default(): every register 0, line_control 0b0000_0011.
UartRegistersDefault ==
    [receiver_buffer |-> 0, transmitter_holding |-> 0,
     interrupt_enable |-> 0, interrupt_ident |-> 0, line_control |-> 3,
     modem_control |-> 0, line_status |-> 0, modem_status |-> 0,
     scratch |-> 0, divisor_latch_ls |-> 0, divisor_latch_ms |-> 0]

\* enum RegisterAddress, in the order of its discriminants 0..8.
RegisterAddress ==
    <<"ReceiverBuffer", "TransmitterHolding", "InterruptEnable",
      "InterruptIdent", "LineControl", "ModemControl", "LineStatus",
      "ModemStatus", "Scratch">>

\* TryFrom<usize> for RegisterAddress: "AddressConvertError" above 8.
RegisterAddressTryFrom(value) ==
    LET n == BvToNatCapped(value, Len(RegisterAddress))
    IN  IF n < Len(RegisterAddress) THEN RegisterAddress[n + 1]
        ELSE "AddressConvertError"

\* From<RegisterAddress> for usize
RegisterAddressInto(a) ==
    NatToBv((CHOOSE i \in 1..Len(RegisterAddress) : RegisterAddress[i] = a)
            - 1, 64)

\* Result<u8, Error> and Result<(), Error> of read_at and write_at.
UartOk(v, regs) == [kind |-> "Ok", err |-> "none", value |-> v, registers |-> regs]

UartErr(e, regs) == [kind |-> "Err", err |-> e, value |-> 0, registers |-> regs]

\* Uart::read_at
read_at(regs, address) ==
    CASE address = "ReceiverBuffer" -> UartOk(regs.receiver_buffer, regs)
      [] address = "TransmitterHolding" -> UartErr("DisallowedRead", regs)
      [] address = "InterruptEnable" -> UartOk(regs.interrupt_enable, regs)
      [] address = "InterruptIdent" -> UartErr("DisallowedRead", regs)
      [] address = "LineControl" -> UartOk(regs.line_control, regs)
      [] address = "ModemControl" -> UartOk(regs.modem_control, regs)
      [] address = "LineStatus" -> UartOk(regs.line_status, regs)
      [] address = "ModemStatus" -> UartOk(regs.modem_status, regs)
      [] address = "Scratch" -> UartOk(regs.scratch, regs)

\* Uart::write_at
write_at(regs, address, value) ==
    CASE address = "ReceiverBuffer" -> UartErr("DisallowedWrite", regs)
      [] address = "TransmitterHolding" ->
            UartOk(0, [regs EXCEPT !.transmitter_holding = value])
      [] address = "InterruptEnable" ->
            UartOk(0, [regs EXCEPT !.interrupt_enable = value])
      [] address = "InterruptIdent" -> UartErr("DisallowedWrite", regs)
      [] address = "LineControl" ->
            UartOk(0, [regs EXCEPT !.line_control = value])
      [] address = "ModemControl" ->
            UartOk(0, [regs EXCEPT !.modem_control = value])
      [] address = "LineStatus" -> UartErr("DisallowedWrite", regs)
      [] address = "ModemStatus" -> UartErr("DisallowedWrite", regs)
      [] address = "Scratch" -> UartOk(0, [regs EXCEPT !.scratch = value])

\* The result of a bus operation of the UART: Ok, Err(kind) or a panic,
\* with the registers and the output as the operation left them.
UartBus(kind, err, value, regs, out) ==
    [kind |-> kind, err |-> err, value |-> value, registers |-> regs,
     output |-> out]

\* From<Error> for bus::Error: every arm is todo!(), a panic.
BusErrorFromUartError(e, regs, out) == UartBus("Panic", "none", <<>>, regs, out)

\* From<AddressConvertError> for bus::Error
BusErrorFromAddressConvertError(regs, out) ==
    UartBus("Err", "OutOfBounds", <<>>, regs, out)

\* read::<T> without the test of the size: the first byte of a wider value
\* is the byte of the register.
UartReadAnySize(regs, out, address, W) ==
    IF RegisterAddressTryFrom(address) = "AddressConvertError"
    THEN BusErrorFromAddressConvertError(regs, out)
    ELSE LET r == read_at(regs,
                     IF RegisterAddressTryFrom(address) = "TransmitterHolding"
                     THEN "ReceiverBuffer"
                     ELSE RegisterAddressTryFrom(address))
         IN  IF r.kind = "Err" THEN BusErrorFromUartError(r.err, regs, out)
             ELSE UartBus("Ok", "none",
                          from_le_bytes([i \in 1..W |->
                                            IF i = 1 THEN r.value ELSE 0]),
                          regs, out)

\* impl Bus for Uart, read::<T> with W = T::SIZE
UartRead(regs, out, address, W) ==
    IF W > 1 THEN UartBus("Err", "Unimplemented", <<>>, regs, out)
    ELSE IF RegisterAddressTryFrom(address) = "AddressConvertError"
    THEN BusErrorFromAddressConvertError(regs, out)
    ELSE LET r == read_at(regs,
                     IF RegisterAddressTryFrom(address) = "TransmitterHolding"
                     THEN "ReceiverBuffer"
                     ELSE RegisterAddressTryFrom(address))
         IN  IF r.kind = "Err" THEN BusErrorFromUartError(r.err, regs, out)
             ELSE UartBus("Ok", "none", from_le_bytes(<<r.value>>), regs, out)

\* The rest of write::<T> once write_at returned Ok: the receiver buffer
\* takes the bits of the transmitter holding register, and these bits are
\* written to the output.
UartWritten(regs, out) ==
    UartBus("Ok", "none", <<>>,
            [regs EXCEPT !.receiver_buffer = regs.transmitter_holding],
            Append(out, regs.transmitter_holding))

\* impl Bus for Uart, write::<T> with W = T::SIZE
UartWrite(regs, out, address, value, W) ==
    IF Len(to_le_bytes(value, W)) > 1
    THEN UartBus("Err", "Unimplemented", <<>>, regs, out)
    ELSE IF RegisterAddressTryFrom(address) = "AddressConvertError"
    THEN BusErrorFromAddressConvertError(regs, out)
    ELSE LET r == write_at(regs,
                     IF RegisterAddressTryFrom(address) = "ReceiverBuffer"
                     THEN "TransmitterHolding"
                     ELSE RegisterAddressTryFrom(address),
                     to_le_bytes(value, W)[1])
         IN  IF r.kind = "Err" THEN BusErrorFromUartError(r.err, regs, out)
             ELSE UartWritten(r.registers, out)

\* TryFrom<u8> for WordLength
WordLengthTryFrom(value) ==
    CASE value = 0 -> "FiveBits"
      [] value = 1 -> "SixBits"
      [] value = 2 -> "SevenBits"
      [] value = 3 -> "EightBits"
      [] OTHER -> "InvalidCharacterLength"

\* TryFrom<u8> for StopBitMask
StopBitMaskTryFrom(value) ==
    CASE value = 0 -> "Unset"
      [] value = 4 -> "Set"
      [] OTHER -> "InvalidStopBitMask"

\* StopBitCount::from that takes no account of the word length.
StopBitCountAlwaysTwo(word_length) == "Two"

\* From<WordLength> for StopBitCount
StopBitCountFrom(word_length) ==
    IF word_length = "FiveBits" THEN "OneAndAHalf" ELSE "Two"

\* self.read::<u8>(RegisterAddress::LineControl.into())
LineControlRead(regs) ==
    UartRead(regs, <<>>, RegisterAddressInto("LineControl"), 1)

\* WordLength::try_from(bits & 0b11).expect(..)
WordLengthOf(control_bits) ==
    IF WordLengthTryFrom(AndLimb(control_bits, 3)) = "InvalidCharacterLength"
    THEN "panic"
    ELSE WordLengthTryFrom(AndLimb(control_bits, 3))

\* Uart::word_length; "panic" when an unwrap() or expect() fails.
word_length(regs) ==
    IF LineControlRead(regs).kind # "Ok" THEN "panic"
    ELSE WordLengthOf(LineControlRead(regs).value[1])

\* The match of stop_bit_count on the StopBitMask x.
StopBitCountOf(x, control_bits) ==
    CASE x = "Unset" -> "One"
      [] x = "Set" ->
            IF WordLengthOf(control_bits) = "panic" THEN "panic"
            ELSE StopBitCountFrom(WordLengthOf(control_bits))
      [] OTHER -> "panic"

\* Uart::stop_bit_count; "panic" when an unwrap() or expect() fails.
stop_bit_count(regs) ==
    IF LineControlRead(regs).kind # "Ok" THEN "panic"
    ELSE StopBitCountOf(
            StopBitMaskTryFrom(AndLimb(LineControlRead(regs).value[1], 4)),
            LineControlRead(regs).value[1])

\* Uart::new(output) with an output that holds no byte yet.
InitUart ==
    /\ uart_registers = UartRegistersDefault
    /\ output = <<>>

\* Platform::default()
InitPlatform ==
    /\ registers = [i \in 0..31 |-> BvZero(64)]
    /\ pc = BvZero(64)
    /\ memory = heap_allocate_memory
    /\ reservation_sets = <<>>

\* Values of a width of n bits: zero, all ones, one bit set, one bit clear,
\* and a value whose bytes all differ.
OneBit(k, n) == [j \in 1..NLimbs(n) |-> IF (k \div 16) + 1 = j THEN 2 ^ (k % 16) ELSE 0]

LeValues(n) ==
    {BvZero(n), BvOnes(n),
     Hex(<<0, 1, 2, 3, 4, 5, 6, 7, 8, 9, 10, 11, 12, 13, 14, 15>>, n)}
    \cup {OneBit(k, n) : k \in 0..(n - 1)}
    \cup {BvXor(BvOnes(n), OneBit(k, n)) : k \in 0..(n - 1)}

InitLe ==
    /\ InitPlatform
    /\ InitUart
    /\ phase = "init"
    /\ steps = 0
    /\ op \in {[NoOp EXCEPT !.name = "le_input", !.value = x[2],
                            !.size = x[1]] :
                  x \in UNION {{<<W, v>> : v \in LeValues(8 * W)} :
                                  W \in {1, 2, 4, 8}}}

ToLeBytes ==
    /\ op.name = "le_input"
    /\ op' = [op EXCEPT !.name = "to_le_bytes",
                        !.bytes = to_le_bytes(op.value, op.size)]
    /\ UNCHANGED <<registers, pc, memory, reservation_sets, uart_registers,
                 output, phase, steps>>

FromLeBytes ==
    /\ op.name = "to_le_bytes"
    /\ op' = [op EXCEPT !.name = "from_le_bytes",
                        !.ret = from_le_bytes(op.bytes)]
    /\ UNCHANGED <<registers, pc, memory, reservation_sets, uart_registers,
                 output, phase, steps>>

NextLe == ToLeBytes \/ FromLeBytes

SpecLe == InitLe /\ [][NextLe]_vars

(***************************************************************************)
(* The bus of the platform alone: reads and writes of every width.         *)
(***************************************************************************)

MaxBusOps == 2

\* base + n
MemAddr(n) == BvAdd(MEMORY_BASE, Usize(n))

\* Addresses inside the memory (aligned and not, the last ones that fit a
\* value of each width, the ones that no longer fit) and outside of it.
BusAddresses ==
    {MemAddr(n) : n \in {0, 3, MEMORY_SIZE - 8, MEMORY_SIZE - 4,
                         MEMORY_SIZE - 1, MEMORY_SIZE}}
    \cup {BvSub(MEMORY_BASE, Usize(1)), BvZero(64)}

\* The values written, <<W, value>>.
BusValues ==
    {<<W, Hex(<<0, 1, 2, 3, 4, 5, 6, 7, 8, 9, 10, 11, 12, 13, 14, 15>>,
              8 * W)>> : W \in {1, 2, 4, 8}}
    \cup {<<1, Hex(<<15, 14>>, 8)>>, <<2, Hex(<<8, 0, 0, 1>>, 16)>>}

\* The platform once emulate() has pushed the hart's reservation set.
InitRunning ==
    /\ registers = [i \in 0..31 |-> BvZero(64)]
    /\ pc = BvZero(64)
    /\ memory = heap_allocate_memory
    /\ reservation_sets = <<ReservationSetDefault>>
    /\ InitUart
    /\ phase = "running"
    /\ steps = 0
    /\ op = NoOp

BusRead(address, W) ==
    /\ phase = "running"
    /\ steps < MaxBusOps
    /\ LET r == PlatformRead(memory, address, W)
       IN  /\ op' = [After(op, "read") EXCEPT !.address = address,
                                 !.size = W, !.ok = (r.kind = "Ok"),
                                 !.err = r.err, !.ret = r.value]
           /\ phase' = IF r.kind = "Panic" THEN "panicked" ELSE phase
           /\ memory' = r.memory
    /\ steps' = steps + 1
    /\ UNCHANGED <<uart_registers, output, registers, pc, reservation_sets>>

BusWrite(address, value, W) ==
    /\ phase = "running"
    /\ steps < MaxBusOps
    /\ LET r == PlatformWrite(memory, address, value, W)
       IN  /\ op' = [After(op, "write") EXCEPT !.address = address,
                                 !.size = W, !.value = value,
                                 !.ok = (r.kind = "Ok"), !.err = r.err]
           /\ phase' = IF r.kind = "Panic" THEN "panicked" ELSE phase
           /\ memory' = r.memory
    /\ steps' = steps + 1
    /\ UNCHANGED <<uart_registers, output, registers, pc, reservation_sets>>

NextBus ==
    \/ \E address \in BusAddresses, W \in {1, 2, 4, 8} : BusRead(address, W)
    \/ \E address \in BusAddresses, x \in BusValues :
          BusWrite(address, x[2], x[1])

SpecBus == InitRunning /\ [][NextBus]_vars

(***************************************************************************)
(* The reservation sets alone: the operations of the Platform that claim,  *)
(* invalidate and check reservations, and the store entry point of the     *)
(* harts, called for the hart of the platform (0) and for another one (1). *)
(***************************************************************************)

MaxResOps == 3

\* The hart of the platform; Platform::default() gives it the id 0.
HART_ID == 0

HartIds == {HART_ID, HART_ID + 1}

\* A reserved address A in the middle of the memory, and E, the last one
\* that holds four bytes.
ResA(n) == MemAddr(8 + n)

ResE(n) == MemAddr(MEMORY_SIZE - 4 + n)

\* <<address, size>> of the reservations claimed.
ClaimArgs == {<<ResA(0), 2>>, <<ResA(0), 4>>, <<ResE(0), 4>>}

\* <<address, size>> of the stores: ending just below and just at the first
\* reserved byte, starting at the last reserved byte and just above it.
StoreArgs ==
    {<<MemAddr(8 - 4), 4>>, <<MemAddr(8 - 3), 4>>, <<MemAddr(8 - 1), 1>>,
     <<MemAddr(8 - 1), 2>>, <<MemAddr(8 - 8), 8>>, <<MemAddr(8 - 7), 8>>,
     <<ResA(0), 2>>, <<ResA(0), 4>>, <<ResA(1), 1>>, <<ResA(2), 2>>,
     <<ResA(3), 1>>, <<ResA(4), 4>>, <<ResA(8), 4>>,
     <<ResE(0), 4>>, <<ResE(2), 2>>}

\* <<address, size>> of the stores made through write_from_hart; the last
\* one does not fit the memory.
WriteArgs ==
    {<<MemAddr(8 - 3), 4>>, <<ResA(2), 2>>, <<ResA(8), 4>>, <<ResE(2), 4>>}

\* The value stored by a store of W bytes.
StoreValue(W) ==
    Hex(<<10, 1, 11, 2, 12, 3, 13, 4, 14, 5, 15, 6, 1, 7, 2, 8>>, 8 * W)

Claim(hart_id, address, size) ==
    /\ phase = "running"
    /\ steps < MaxResOps
    /\ LET r == claim_reservation_set(reservation_sets, hart_id, address,
                                      size)
       IN  /\ reservation_sets' = r.sets
           /\ phase' = IF r.panic THEN "panicked" ELSE phase
           /\ op' = [After(op, "claim") EXCEPT !.hart = hart_id,
                                 !.address = address, !.size = size,
                                 !.ok = ~r.panic]
    /\ steps' = steps + 1
    /\ UNCHANGED <<uart_registers, output, registers, pc, memory>>

InvalidateOther(hart_id, address, size, debug) ==
    /\ phase = "running"
    /\ steps < MaxResOps
    /\ LET r == invalidate_reservation_sets(reservation_sets, hart_id,
                                            address, size, debug)
       IN  /\ reservation_sets' = r.sets
           /\ phase' = IF r.panic THEN "panicked" ELSE phase
           /\ op' = [After(op, "invalidate_other") EXCEPT
                                 !.hart = hart_id, !.address = address,
                                 !.size = size, !.ok = ~r.panic]
    /\ steps' = steps + 1
    /\ UNCHANGED <<uart_registers, output, registers, pc, memory>>

CheckInvalidate(hart_id, address, size, debug) ==
    /\ phase = "running"
    /\ steps < MaxResOps
    /\ LET r == check_invalidate_reservation_set(reservation_sets, hart_id,
                                                 address, size, debug)
       IN  /\ reservation_sets' = r.sets
           /\ phase' = IF r.panic THEN "panicked" ELSE phase
           /\ op' = [After(op, "check_and_invalidate") EXCEPT
                                 !.hart = hart_id, !.address = address,
                                 !.size = size, !.ok = r.ret,
                                 !.err = IF r.panic THEN "panic" ELSE "none"]
    /\ steps' = steps + 1
    /\ UNCHANGED <<uart_registers, output, registers, pc, memory>>

WriteFromHart(hart_id, address, value, W, debug) ==
    /\ phase = "running"
    /\ steps < MaxResOps
    /\ LET r == write_from_hart(reservation_sets, memory, hart_id, address,
                                value, W, debug)
       IN  /\ reservation_sets' = r.sets
           /\ memory' = r.memory
           /\ phase' = IF r.kind = "Panic" THEN "panicked" ELSE phase
           /\ op' = [After(op, "write_from_hart") EXCEPT
                                 !.hart = hart_id, !.address = address,
                                 !.size = W, !.value = value,
                                 !.ok = (r.kind = "Ok"),
                                 !.err = IF r.kind = "Panic" THEN "panic"
                                         ELSE r.err]
    /\ steps' = steps + 1
    /\ UNCHANGED <<uart_registers, output, registers, pc>>

NextRes ==
    \/ \E x \in ClaimArgs : Claim(HART_ID, x[1], x[2])
    \/ Claim(HART_ID + 1, ResA(0), 4)
    \/ \E h \in HartIds, x \in StoreArgs :
          \E debug \in Builds(reservation_sets, x[2]) :
             InvalidateOther(h, x[1], x[2], debug)
    \/ \E x \in StoreArgs :
          \E debug \in Builds(reservation_sets, x[2]) :
             CheckInvalidate(HART_ID, x[1], x[2], debug)
    \/ CheckInvalidate(HART_ID + 1, ResA(0), 4, FALSE)
    \/ \E h \in HartIds, x \in WriteArgs :
          \E debug \in Builds(reservation_sets, x[2]) :
             WriteFromHart(h, x[1], StoreValue(x[2]), x[2], debug)

SpecRes == InitRunning /\ [][NextRes]_vars

(***************************************************************************)
(* insn: the fields of an instruction word and the decoder                 *)
(***************************************************************************)

OPCODE_LOAD == 3

OPCODE_MISCMEM == 15

OPCODE_INT_REG_IMM == 19

OPCODE_AUIPC == 23

OPCODE_INT_REG_IMM_32 == 27

OPCODE_STORE == 35

OPCODE_ATOMIC == 47

OPCODE_INT_REG_REG == 51

OPCODE_LUI == 55

OPCODE_INT_REG_REG_32 == 59

OPCODE_BRANCH == 99

OPCODE_JALR == 103

OPCODE_JAL == 111

OPCODE_SYSTEM == 115

FUNC3_ADDI == 0

FUNC3_SLTI == 2

FUNC3_SLTIU == 3

FUNC3_XORI == 4

FUNC3_ORI == 6

FUNC3_ANDI == 7

FUNC3_SLLI == 1

FUNC3_SRLI == 5

FUNC3_ADD == 0

FUNC3_ADDIW == 0

FUNC3_SLLIW == 1

FUNC3_SRLIW == 5

FUNC3_SB == 0

FUNC3_SH == 1

FUNC3_SW == 2

FUNC3_SD == 3

FUNC3_LB == 0

FUNC3_LH == 1

FUNC3_LW == 2

FUNC3_LD == 3

FUNC3_LBU == 4

FUNC3_LHU == 5

FUNC3_LWU == 6

FUNC3_CSRRW == 1

FUNC3_CSRRS == 2

FUNC3_CSRRC == 3

FUNC3_CSRRWI == 5

FUNC3_CSRRSI == 6

FUNC3_CSRRCI == 7

FUNC3_BEQ == 0

FUNC3_BNE == 1

FUNC3_BLT == 4

FUNC3_BGE == 5

FUNC3_BLTU == 6

FUNC3_BGEU == 7

FUNC3_RV32_ATOMIC == 2

FUNC3_RV64_ATOMIC == 3

FUNC7_ADD == 0

FUNC7_SUB == 32

FUNC7_LR == 8

FUNC7_SC == 12

FUNC7_AMOSWAP == 4

FUNC7_AMOADD == 0

FUNC7_AMOXOR == 16

FUNC7_AMOAND == 48

FUNC7_AMOOR == 32

\* field_get!(input, F, u32) for the field of `width` bits at `shift`:
\* (input & insn_mask!(F)) >> F_SHIFT, a number below 2^20.
RECURSIVE field_get(_, _, _)
field_get(input, shift, width) ==
    IF width = 0 THEN 0
    ELSE BvBit(input, shift) + 2 * field_get(input, shift + 1, width - 1)

\* sign_extend!(input, top_bit, i32): (input as i32) << shift >> shift with
\* shift = 32 - (top_bit + 1); >> of an i32 shifts the sign in.
sign_extend(input, top_bit) ==
    BvSar(ShlBits(input, 32 - (top_bit + 1)), 32 - (top_bit + 1))

\* gen_mask!(h, l, u64)
gen_mask(h, l) ==
    [j \in 1..4 |->
        LET lo == 16 * (j - 1)
            hi == lo + 15
            from == IF l > lo THEN l - lo ELSE 0
            to == IF h < hi THEN h - lo ELSE 15
        IN  IF l > hi \/ h < lo THEN 0
            ELSE (2 ^ (to + 1)) - (2 ^ from)]

\* u8s_to_insn
u8s_to_insn(input) ==
    <<input[1] + 256 * input[2], input[3] + 256 * input[4]>>

\* Insn::default()
InsnDefault ==
    [opcode |-> 0, rd |-> 0, rs1 |-> 0, rs2 |-> 0, imm |-> BvZero(32),
     func3 |-> 0, func7 |-> 0, insn_type |-> "Invalid"]

\* The first match of Insn::parse: the type of the instruction, or "todo"
\* where the match arm is todo!().
InsnTypeOf(input) ==
    LET opcode == field_get(input, 0, 7)
    IN  IF opcode \in {OPCODE_LUI, OPCODE_AUIPC} THEN "U"
        ELSE IF opcode = OPCODE_JAL THEN "J"
        ELSE IF opcode = OPCODE_JALR THEN "I"
        ELSE IF opcode = OPCODE_INT_REG_IMM THEN "I"
        ELSE IF opcode = OPCODE_INT_REG_REG THEN "R"
        ELSE IF opcode = OPCODE_LOAD THEN "S"
        ELSE IF opcode = OPCODE_STORE THEN "S"
        ELSE IF opcode = OPCODE_SYSTEM THEN "I"
        ELSE IF opcode = OPCODE_MISCMEM THEN "I"
        ELSE IF opcode = OPCODE_BRANCH THEN "B"
        ELSE IF opcode = OPCODE_ATOMIC THEN "R"
        ELSE IF opcode = OPCODE_INT_REG_IMM_32
        THEN (IF field_get(input, 12, 3) = 0 THEN "I" ELSE "R")
        ELSE "todo"

\* Insn::parse on Insn::default() (Insn::from): the fields each type sets;
\* the others keep their defaults.
parse(input) ==
    LET t == InsnTypeOf(input)
        base == [InsnDefault EXCEPT !.opcode = field_get(input, 0, 7),
                                    !.insn_type = t]
        rd == field_get(input, 7, 5)
        rs1 == field_get(input, 15, 5)
        rs2 == field_get(input, 20, 5)
        func3 == field_get(input, 12, 3)
        func7 == field_get(input, 25, 7)
    IN  IF t = "U"
        THEN [base EXCEPT
                !.imm = sign_extend(<<(input[1] \div 4096) * 4096, input[2]>>,
                                    31),
                !.rd = rd]
        ELSE IF t = "I"
        THEN [base EXCEPT
                !.imm = sign_extend(NatToBv(field_get(input, 20, 12), 32), 11),
                !.rd = rd, !.rs1 = rs1, !.func3 = func3]
        ELSE IF t = "R"
        THEN [base EXCEPT !.rd = rd, !.rs1 = rs1, !.rs2 = rs2,
                          !.func3 = func3, !.func7 = func7]
        ELSE IF t = "S"
        THEN [base EXCEPT
                !.rs1 = rs1, !.rs2 = rs2, !.func3 = func3,
                !.imm = sign_extend(
                            NatToBv(field_get(input, 25, 7) * 32
                                        + field_get(input, 7, 5), 32), 11)]
        ELSE IF t = "B"
        THEN [base EXCEPT
                !.rs1 = rs1, !.rs2 = rs2, !.func3 = func3,
                !.imm = sign_extend(
                            NatToBv(field_get(input, 8, 4) * 2
                                        + field_get(input, 25, 6) * 32
                                        + field_get(input, 7, 1) * 2048
                                        + field_get(input, 31, 1) * 4096,
                                    32), 12)]
        ELSE IF t = "J"
        THEN [base EXCEPT
                !.rd = rd,
                !.imm = sign_extend(
                            NatToBv(field_get(input, 21, 10) * 2
                                        + field_get(input, 20, 1) * 2048
                                        + field_get(input, 12, 8) * 4096
                                        + field_get(input, 31, 1) * 1048576,
                                    32), 20)]
        ELSE base

(***************************************************************************)
(* hart: the register file and the CSRs                                    *)
(***************************************************************************)

\* Hart::write_register that stores to x0 as to any other register.
write_register_unguarded(regs, offset, value) ==
    [regs EXCEPT ![offset] = value]

\* Hart::write_register
write_register(regs, offset, value) ==
    IF offset = 0 THEN regs ELSE [regs EXCEPT ![offset] = value]

\* Hart::read_register
read_register(regs, offset) ==
    IF offset = 0 THEN BvZero(64) ELSE regs[offset]

\* Hart::read_csr ("Unimplemented csr read"); Hart::write_csr changes no
\* state.
read_csr(offset) == BvZero(64)

(***************************************************************************)
(* insn: the handlers.  A handler takes the decoded instruction and the    *)
(* platform p = [registers, pc, memory, sets, panic] and gives the         *)
(* platform it leaves; panic says that the thread panicked (todo!(),       *)
(* panic!(), unwrap() of an Err, an index out of range, an arithmetic      *)
(* overflow in a build that checks for it), with the effects made before.  *)
(***************************************************************************)

Panicked(p) == [p EXCEPT !.panic = TRUE]

\* self.imm as i64 (as u64)
Imm64(insn) == BvSext(insn.imm, 64)

\* the "shamt": (imm as u64) & gen_mask!(5, 0, u64)
Shamt(insn) == field_get(insn.imm, 0, 6)

handle_int_reg_reg_insn(insn, p) ==
    LET rs1 == read_register(p.registers, insn.rs1)
        rs2 == read_register(p.registers, insn.rs2)
    IN  IF insn.func3 = FUNC3_ADD
        THEN IF insn.func7 = FUNC7_ADD
             THEN [p EXCEPT !.registers =
                      write_register(p.registers, insn.rd, BvAdd(rs1, rs2))]
             ELSE [p EXCEPT !.registers =
                      write_register(p.registers, insn.rd, BvSub(rs1, rs2))]
        ELSE Panicked(p)

\* handle_int_reg_imm_insn whose SLTI compares as SLTIU does.
handle_int_reg_imm_insn_unsigned_slti(insn, p) ==
    LET src == read_register(p.registers, insn.rs1)
        imm == Imm64(insn)
        shift == Shamt(insn)
        W(v) == [p EXCEPT !.registers = write_register(p.registers, insn.rd, v)]
    IN  IF insn.func3 = FUNC3_ADDI
        THEN IF insn.imm = BvZero(32) /\ insn.rs1 = 0 /\ insn.rd = 0
             THEN p
             ELSE W(BvAdd(src, imm))
        ELSE IF insn.func3 = FUNC3_ANDI THEN W(BvAnd(src, imm))
        ELSE IF insn.func3 = FUNC3_ORI THEN W(BvOr(src, imm))
        ELSE IF insn.func3 = FUNC3_XORI THEN W(BvXor(src, imm))
        ELSE IF insn.func3 \in {FUNC3_SLTI, FUNC3_SLTIU}
        THEN W(IF BvULess(src, imm) THEN Usize(1) ELSE Usize(0))
        ELSE IF insn.func3 = FUNC3_SLLI THEN W(BvShl(src, shift))
        ELSE IF insn.func3 = FUNC3_SRLI
        THEN IF BvAnd(imm, gen_mask(10, 10)) # BvZero(64)
             THEN W(BvShr(src, shift))
             ELSE W(BvSar(src, shift))
        ELSE Panicked(p)

handle_int_reg_imm_insn(insn, p) ==
    LET src == read_register(p.registers, insn.rs1)
        imm == Imm64(insn)
        shift == Shamt(insn)
        W(v) == [p EXCEPT !.registers = write_register(p.registers, insn.rd, v)]
    IN  IF insn.func3 = FUNC3_ADDI
        THEN IF insn.imm = BvZero(32) /\ insn.rs1 = 0 /\ insn.rd = 0
             THEN p
             ELSE W(BvAdd(src, imm))
        ELSE IF insn.func3 = FUNC3_ANDI THEN W(BvAnd(src, imm))
        ELSE IF insn.func3 = FUNC3_ORI THEN W(BvOr(src, imm))
        ELSE IF insn.func3 = FUNC3_XORI THEN W(BvXor(src, imm))
        ELSE IF insn.func3 = FUNC3_SLTI
        THEN W(IF BvSLess(src, imm) THEN Usize(1) ELSE Usize(0))
        ELSE IF insn.func3 = FUNC3_SLTIU
        THEN W(IF BvULess(src, imm) THEN Usize(1) ELSE Usize(0))
        ELSE IF insn.func3 = FUNC3_SLLI THEN W(BvShl(src, shift))
        ELSE IF insn.func3 = FUNC3_SRLI
        THEN IF BvAnd(imm, gen_mask(10, 10)) # BvZero(64)
             THEN W(BvShr(src, shift))
             ELSE W(BvSar(src, shift))
        ELSE Panicked(p)

handle_int_reg_imm32_insn(insn, p) ==
    LET src == read_register(p.registers, insn.rs1)
        imm == Imm64(insn)
        shift == Shamt(insn)
        tmp_src == BvTrunc(BvAnd(src, gen_mask(31, 0)), 32)
        W(v) == [p EXCEPT !.registers = write_register(p.registers, insn.rd, v)]
    IN  IF insn.func3 = FUNC3_ADDIW
        THEN W(BvSext(BvTrunc(BvAnd(BvAdd(src, imm), gen_mask(31, 0)), 32),
                      64))
        ELSE IF insn.func3 = FUNC3_SLLIW
        THEN W(BvZext(BvShl(tmp_src, shift), 64))
        ELSE IF insn.func3 = FUNC3_SRLIW
        THEN IF BvAnd(imm, gen_mask(10, 10)) = BvZero(64)
             THEN W(BvZext(BvShr(tmp_src, shift), 64))
             ELSE W(BvZext(BvSar(tmp_src, shift), 64))
        ELSE Panicked(p)

\* The platform after `let _ = write_from_hart(...)`: an Err is dropped.
AfterWrite(p, w) ==
    [p EXCEPT !.memory = w.memory, !.sets = w.sets,
              !.panic = (w.kind = "Panic")]

\* handle_store_insn that writes all of rs2 whatever the width.
handle_store_insn_whole_register(insn, p, debug) ==
    LET base == read_register(p.registers, insn.rs1)
        address == BvAdd(base, Imm64(insn))
        tmp == read_register(p.registers, insn.rs2)
    IN  IF insn.func3 \in {FUNC3_SD, FUNC3_SW, FUNC3_SH, FUNC3_SB}
        THEN AfterWrite(p, write_from_hart(p.sets, p.memory, HART_ID, address,
                                           tmp, 8, debug))
        ELSE Panicked(p)

handle_store_insn(insn, p, debug) ==
    LET base == read_register(p.registers, insn.rs1)
        address == BvAdd(base, Imm64(insn))
        tmp == read_register(p.registers, insn.rs2)
        W == IF insn.func3 = FUNC3_SD THEN 8
             ELSE IF insn.func3 = FUNC3_SW THEN 4
             ELSE IF insn.func3 = FUNC3_SH THEN 2
             ELSE 1
        value == IF insn.func3 = FUNC3_SD THEN tmp
                 ELSE IF insn.func3 = FUNC3_SW
                 THEN BvTrunc(BvAnd(tmp, gen_mask(31, 0)), 32)
                 ELSE IF insn.func3 = FUNC3_SH
                 THEN BvTrunc(BvAnd(tmp, gen_mask(15, 0)), 16)
                 ELSE BvToU8(BvAnd(tmp, gen_mask(7, 0)))
    IN  IF insn.func3 \in {FUNC3_SD, FUNC3_SW, FUNC3_SH, FUNC3_SB}
        THEN AfterWrite(p, write_from_hart(p.sets, p.memory, HART_ID, address,
                                           value, W, debug))
        ELSE Panicked(p)

\* The casts of a loaded value to u64: `as i32 as i64 as u64` and
\* `as i16 as i32 as u64` ("sext"), `as i8 as i64 as u64` ("i8"), `as u64`
\* of a u8 ("u8") and of a u16 or u32 ("zext").
LoadCast(v, cast) ==
    IF cast = "sext" THEN BvSext(v, 64)
    ELSE IF cast = "i8" THEN I8ToBv(v, 64)
    ELSE IF cast = "u8" THEN U8ToBv(v, 64)
    ELSE BvZext(v, 64)

\* platform_bus.read(address).unwrap(), the cast, write_register(rd, ..)
LoadTo(p, rd, address, W, cast) ==
    LET r == PlatformRead(p.memory, address, W)
    IN  IF r.kind # "Ok" THEN Panicked(p)
        ELSE [p EXCEPT !.registers =
                 write_register(p.registers, rd, LoadCast(r.value, cast))]

handle_load_insn(insn, p) ==
    LET base == read_register(p.registers, insn.rs1)
        address == BvAdd(base, Imm64(insn))
        W == IF insn.func3 = FUNC3_LD THEN 8
             ELSE IF insn.func3 \in {FUNC3_LW, FUNC3_LWU} THEN 4
             ELSE IF insn.func3 \in {FUNC3_LH, FUNC3_LHU} THEN 2
             ELSE 1
        cast == IF insn.func3 \in {FUNC3_LW, FUNC3_LH} THEN "sext"
                ELSE IF insn.func3 = FUNC3_LB THEN "i8"
                ELSE IF insn.func3 = FUNC3_LBU THEN "u8"
                ELSE "zext"
    IN  IF insn.func3 \in {FUNC3_LD, FUNC3_LW, FUNC3_LH, FUNC3_LB, FUNC3_LWU,
                           FUNC3_LHU, FUNC3_LBU}
        THEN LoadTo(p, insn.rd, address, W, cast)
        ELSE Panicked(p)

\* The CSR number is (self.imm as usize) & gen_mask!(11, 0, usize); the
\* writes to the CSRs (write_csr) change nothing.
handle_csr_insn(insn, p) ==
    LET imm == field_get(insn.imm, 0, 12)
        W(v) == [p EXCEPT !.registers = write_register(p.registers, insn.rd, v)]
    IN  IF insn.func3 \in {FUNC3_CSRRW, FUNC3_CSRRWI}
        THEN IF insn.rd # 0 THEN W(read_csr(imm)) ELSE p
        ELSE IF insn.func3 \in {FUNC3_CSRRS, FUNC3_CSRRSI, FUNC3_CSRRC,
                                FUNC3_CSRRCI}
        THEN W(read_csr(imm))
        ELSE Panicked(p)

\* handle_jump_insn whose JALR reads rs1 after it has written rd.
handle_jump_insn_link_first(insn, p) ==
    LET linked == write_register(p.registers, insn.rd, BvAdd(p.pc, Usize(4)))
    IN  IF insn.opcode = OPCODE_JAL
        THEN [p EXCEPT !.registers = linked,
                       !.pc = BvAdd(p.pc, Imm64(insn))]
        ELSE IF insn.opcode = OPCODE_JALR
        THEN [p EXCEPT !.registers = linked,
                       !.pc = BvAnd(BvAdd(read_register(linked, insn.rs1),
                                          Imm64(insn)),
                                    gen_mask(63, 1))]
        ELSE Panicked(p)

\* hart.pc + 4 cannot overflow: the instruction was fetched at pc, inside
\* the memory.
handle_jump_insn(insn, p) ==
    IF insn.opcode = OPCODE_JAL
    THEN [p EXCEPT
            !.registers = write_register(p.registers, insn.rd,
                                         BvAdd(p.pc, Usize(4))),
            !.pc = BvAdd(p.pc, Imm64(insn))]
    ELSE IF insn.opcode = OPCODE_JALR
    THEN [p EXCEPT
            !.registers = write_register(p.registers, insn.rd,
                                         BvAdd(p.pc, Usize(4))),
            !.pc = BvAnd(BvAdd(read_register(p.registers, insn.rs1),
                               Imm64(insn)),
                         gen_mask(63, 1))]
    ELSE Panicked(p)

handle_branch_insn(insn, p) ==
    LET src1 == read_register(p.registers, insn.rs1)
        src2 == read_register(p.registers, insn.rs2)
        taken ==
            IF insn.func3 = FUNC3_BEQ THEN src1 = src2
            ELSE IF insn.func3 = FUNC3_BNE THEN src1 # src2
            ELSE IF insn.func3 = FUNC3_BLT THEN BvSLess(src1, src2)
            ELSE IF insn.func3 = FUNC3_BLTU THEN BvULess(src1, src2)
            ELSE IF insn.func3 = FUNC3_BGE THEN ~BvSLess(src1, src2)
            ELSE ~BvULess(src1, src2)
        offset == IF taken THEN insn.imm ELSE BvZero(32)
    IN  IF insn.func3 \notin {FUNC3_BEQ, FUNC3_BNE, FUNC3_BLT, FUNC3_BLTU,
                              FUNC3_BGE, FUNC3_BGEU}
        THEN Panicked(p)
        ELSE IF offset # BvZero(32)
        THEN [p EXCEPT !.pc = BvAdd(p.pc, BvSext(sign_extend(offset, 12), 64))]
        ELSE [p EXCEPT !.pc = BvAdd(p.pc, Usize(4))]

\* handle_ui_insn whose LUI writes the immediate zero-extended.
handle_ui_insn_zero_extended(insn, p) ==
    IF insn.opcode = OPCODE_AUIPC
    THEN [p EXCEPT !.registers =
             write_register(p.registers, insn.rd, BvAdd(p.pc, Imm64(insn)))]
    ELSE IF insn.opcode = OPCODE_LUI
    THEN [p EXCEPT !.registers =
             write_register(p.registers, insn.rd, BvZext(insn.imm, 64))]
    ELSE Panicked(p)

handle_ui_insn(insn, p) ==
    IF insn.opcode = OPCODE_AUIPC
    THEN [p EXCEPT !.registers =
             write_register(p.registers, insn.rd, BvAdd(p.pc, Imm64(insn)))]
    ELSE IF insn.opcode = OPCODE_LUI
    THEN [p EXCEPT !.registers =
             write_register(p.registers, insn.rd, Imm64(insn))]
    ELSE Panicked(p)

\* The builds an AMO can tell apart: `val += other_val` overflows.
AmoOverflows(insn, val, other_val) ==
    /\ (insn.func7 \div 4) * 4 = FUNC7_AMOADD
    /\ BvAddOverflows(val, other_val)

\* The match of the AMO handlers on func7 & gen_mask!(6, 2, u32): the value
\* stored, or <<>> for the arms that are todo!().
AmoValue(insn, val, other_val) ==
    LET func5 == (insn.func7 \div 4) * 4
    IN  IF func5 = FUNC7_AMOADD THEN BvAdd(val, other_val)
        ELSE IF func5 = FUNC7_AMOAND THEN BvAnd(val, other_val)
        ELSE IF func5 = FUNC7_AMOOR THEN BvOr(val, other_val)
        ELSE IF func5 = FUNC7_AMOXOR THEN BvXor(val, other_val)
        ELSE IF func5 = FUNC7_AMOSWAP THEN other_val
        ELSE <<>>

\* handle_sc_insn
handle_sc_insn(insn, p, debug) ==
    LET address == read_register(p.registers, insn.rs1)
        val == read_register(p.registers, insn.rs2)
        write_size == IF insn.func3 = 2 THEN 2 ELSE 4
        chk == check_invalidate_reservation_set(p.sets, HART_ID, address,
                                                write_size, debug)
        q == [p EXCEPT !.sets = chk.sets]
        w == write_from_hart(q.sets, q.memory, HART_ID, address,
                             IF insn.func3 = 2
                             THEN BvTrunc(BvAnd(val, gen_mask(31, 0)), 32)
                             ELSE val,
                             IF insn.func3 = 2 THEN 4 ELSE 8, debug)
        done == AfterWrite(q, w)
    IN  IF chk.panic THEN Panicked(p)
        ELSE IF ~chk.ret
        THEN [p EXCEPT !.registers =
                 write_register(p.registers, insn.rd, Usize(1))]
        ELSE IF done.panic THEN done
        ELSE [done EXCEPT !.registers =
                 write_register(p.registers, insn.rd, Usize(0))]

\* handle_lr_insn
handle_lr_insn(insn, p) ==
    LET address == read_register(p.registers, insn.rs1)
        read_size == IF insn.func3 = 2 THEN 2 ELSE 4
        r == PlatformRead(p.memory, address, IF insn.func3 = 2 THEN 4 ELSE 8)
        val == IF insn.func3 = 2 THEN BvSext(r.value, 64) ELSE r.value
        c == claim_reservation_set(p.sets, HART_ID, address, read_size)
    IN  IF r.kind # "Ok" THEN Panicked(p)
        ELSE IF c.panic THEN Panicked(p)
        ELSE [p EXCEPT !.sets = c.sets,
                       !.registers = write_register(p.registers, insn.rd, val)]

\* handle_atomic_rv64_insn: rd is written before rs2 is read.
handle_atomic_rv64_insn(insn, p, debug) ==
    LET address == read_register(p.registers, insn.rs1)
        r == PlatformRead(p.memory, address, 8)
        val == r.value
        q == [p EXCEPT !.registers = write_register(p.registers, insn.rd, val)]
        other_val == read_register(q.registers, insn.rs2)
        new == AmoValue(insn, val, other_val)
    IN  IF r.kind # "Ok" THEN Panicked(p)
        ELSE IF new = <<>> THEN Panicked(q)
        ELSE IF debug /\ AmoOverflows(insn, val, other_val) THEN Panicked(q)
        ELSE AfterWrite(q, write_from_hart(q.sets, q.memory, HART_ID, address,
                                           new, 8, debug))

\* handle_atomic_rv32_insn
handle_atomic_rv32_insn(insn, p, debug) ==
    LET address == read_register(p.registers, insn.rs1)
        r == PlatformRead(p.memory, address, 4)
        val == r.value
        q == [p EXCEPT !.registers =
                 write_register(p.registers, insn.rd, BvSext(val, 64))]
        other_val ==
            BvTrunc(BvAnd(read_register(q.registers, insn.rs2),
                          gen_mask(31, 0)), 32)
        new == AmoValue(insn, val, other_val)
    IN  IF r.kind # "Ok" THEN Panicked(p)
        ELSE IF new = <<>> THEN Panicked(q)
        ELSE IF debug /\ AmoOverflows(insn, val, other_val) THEN Panicked(q)
        ELSE AfterWrite(q, write_from_hart(q.sets, q.memory, HART_ID, address,
                                           new, 4, debug))

handle_atomic_insn(insn, p, debug) ==
    LET func5 == (insn.func7 \div 4) * 4
    IN  IF func5 = FUNC7_LR THEN handle_lr_insn(insn, p)
        ELSE IF func5 = FUNC7_SC THEN handle_sc_insn(insn, p, debug)
        ELSE IF insn.func3 = FUNC3_RV32_ATOMIC
        THEN handle_atomic_rv32_insn(insn, p, debug)
        ELSE handle_atomic_rv64_insn(insn, p, debug)

\* Insn::increment_pc that adds 4 after every instruction.
increment_pc_always(insn, p) == [p EXCEPT !.pc = BvAdd(p.pc, Usize(4))]

\* Insn::increment_pc.  hart.pc += 4 cannot overflow: the handlers of these
\* opcodes leave the pc where the instruction was fetched, inside the memory.
increment_pc(insn, p) ==
    IF insn.opcode \in {OPCODE_JAL, OPCODE_JALR, OPCODE_BRANCH} THEN p
    ELSE [p EXCEPT !.pc = BvAdd(p.pc, Usize(4))]

\* The match of Insn::handle: the platform the handler leaves.
Handled(insn, p, debug) ==
    IF insn.opcode \in {OPCODE_LUI, OPCODE_AUIPC} THEN handle_ui_insn(insn, p)
    ELSE IF insn.opcode = OPCODE_INT_REG_REG
    THEN handle_int_reg_reg_insn(insn, p)
    ELSE IF insn.opcode = OPCODE_INT_REG_IMM
    THEN handle_int_reg_imm_insn(insn, p)
    ELSE IF insn.opcode = OPCODE_STORE THEN handle_store_insn(insn, p, debug)
    ELSE IF insn.opcode = OPCODE_LOAD THEN handle_load_insn(insn, p)
    ELSE IF insn.opcode = OPCODE_SYSTEM THEN handle_csr_insn(insn, p)
    ELSE IF insn.opcode \in {OPCODE_JAL, OPCODE_JALR}
    THEN handle_jump_insn(insn, p)
    ELSE IF insn.opcode = OPCODE_MISCMEM THEN p
    ELSE IF insn.opcode = OPCODE_BRANCH THEN handle_branch_insn(insn, p)
    ELSE IF insn.opcode = OPCODE_INT_REG_IMM_32
    THEN handle_int_reg_imm32_insn(insn, p)
    ELSE IF insn.opcode = OPCODE_ATOMIC THEN handle_atomic_insn(insn, p, debug)
    ELSE Panicked(p)

\* Insn::handle after the match: increment_pc, unless the handler panicked.
Finish(insn, q) == IF q.panic THEN q ELSE increment_pc(insn, q)

(***************************************************************************)
(* platform: the loader and the fetch loop                                 *)
(***************************************************************************)

\* load_file that also rejects a blob that ends at the end of the memory.
load_file_strict(m, blob, load_address) ==
    LET off == BvToNatCapped(BvSub(load_address, memory_start), MEMORY_SIZE)
    IN  IF ~RangeContains(memory_start, memory_end, load_address)
        THEN [ok |-> FALSE, memory |-> m]
        ELSE IF ~BvULess(BvAdd(load_address, Usize(Len(blob))), memory_end)
        THEN [ok |-> FALSE, memory |-> m]
        ELSE [ok |-> TRUE,
              memory |-> [i \in 0..(MEMORY_SIZE - 1) |->
                            IF i >= off /\ i < off + Len(blob)
                            THEN blob[i - off + 1]
                            ELSE m[i]]]

\* Platform::load_file: Err when the load address is not in the memory or
\* the blob does not fit, else the blob is copied to the load address.
load_file(m, blob, load_address) ==
    LET off == BvToNatCapped(BvSub(load_address, memory_start), MEMORY_SIZE)
    IN  IF ~RangeContains(memory_start, memory_end, load_address)
        THEN [ok |-> FALSE, memory |-> m]
        ELSE IF BvULess(memory_end, BvAdd(load_address, Usize(Len(blob))))
        THEN [ok |-> FALSE, memory |-> m]
        ELSE [ok |-> TRUE,
              memory |-> [i \in 0..(MEMORY_SIZE - 1) |->
                            IF i >= off /\ i < off + Len(blob)
                            THEN blob[i - off + 1]
                            ELSE m[i]]]

\* RegisterNames::a1 as usize
RegisterNames_a1 == 11

\* The word at pc: memory[pc..pc + 4] with pc = hart.pc - memory.start,
\* <<>> when the slice is not in the buffer (a panic).
Fetch(m, pc_) ==
    LET off == BvToNatCapped(BvSub(pc_, memory_start), MEMORY_SIZE)
    IN  IF BvULess(pc_, memory_start) \/ off + 4 > MEMORY_SIZE THEN <<>>
        ELSE u8s_to_insn([i \in 1..4 |-> m[off + i - 1]])

\* The platform as the handlers take it.
ThePlatform ==
    [registers |-> registers, pc |-> pc, memory |-> memory,
     sets |-> reservation_sets, panic |-> FALSE]

\* One turn of the loop of emulate() on the platform p: the word fetched,
\* the platform as the handler left it (before increment_pc) and as
\* insn.handle left it.  A fetch outside of the memory and the todo!() arms
\* of the decoder panic.
Turn(word, handler, after) ==
    [word |-> word, handler |-> handler, after |-> after]

HandleInsn(p, word, insn, handler) == Turn(word, handler, Finish(insn, handler))

Decoded(p, word, insn, debug) ==
    IF insn.insn_type = "todo" THEN Turn(word, Panicked(p), Panicked(p))
    ELSE HandleInsn(p, word, insn, Handled(insn, p, debug))

Fetched(p, word, debug) ==
    IF word = <<>> THEN Turn(word, Panicked(p), Panicked(p))
    ELSE Decoded(p, word, parse(word), debug)

Execute(p, debug) == Fetched(p, Fetch(p.memory, p.pc), debug)

MaxSteps == 3

\* load_dtb that sets a1 before it knows that the DTB was loaded.
LoadDtbSetsA1First(dtb, load_address) ==
    /\ phase = "init"
    /\ LET r == load_file(memory, dtb, load_address)
       IN  /\ memory' = r.memory
           /\ registers' = [registers EXCEPT ![RegisterNames_a1] =
                                load_address]
           /\ phase' = IF r.ok THEN "dtb_loaded" ELSE "exited"
           /\ op' = [After(op, "load_dtb") EXCEPT !.address = load_address,
                                 !.bytes = dtb, !.ok = r.ok]
    /\ UNCHANGED <<uart_registers, output, pc, reservation_sets, steps>>

\* main: platform.load_dtb(dtb, dtb_load_address)?
LoadDtb(dtb, load_address) ==
    /\ phase = "init"
    /\ LET r == load_file(memory, dtb, load_address)
       IN  /\ memory' = r.memory
           /\ registers' = IF r.ok
                           THEN [registers EXCEPT ![RegisterNames_a1] =
                                    load_address]
                           ELSE registers
           /\ phase' = IF r.ok THEN "dtb_loaded" ELSE "exited"
           /\ op' = [After(op, "load_dtb") EXCEPT !.address = load_address,
                                 !.bytes = dtb, !.ok = r.ok]
    /\ UNCHANGED <<uart_registers, output, pc, reservation_sets, steps>>

\* main: platform.load_kernel(kernel, kernel_load_address, entry_point)?
LoadKernel(kernel, load_address, entry_point) ==
    /\ phase = "dtb_loaded"
    /\ LET r == load_file(memory, kernel, load_address)
       IN  /\ pc' = entry_point
           /\ memory' = r.memory
           /\ phase' = IF r.ok THEN "kernel_loaded" ELSE "exited"
           /\ op' = [After(op, "load_kernel") EXCEPT
                                 !.address = load_address, !.bytes = kernel,
                                 !.ok = r.ok]
    /\ UNCHANGED <<uart_registers, output, registers, reservation_sets, steps>>

\* emulate(): the reservation set of the hart is pushed before the loop.
Emulate ==
    /\ phase = "kernel_loaded"
    /\ reservation_sets' = Append(reservation_sets, ReservationSetDefault)
    /\ phase' = "running"
    /\ op' = [After(op, "emulate") EXCEPT !.ok = TRUE]
    /\ UNCHANGED <<uart_registers, output, registers, pc, memory, steps>>

\* The state after the turn x.
Stepped(x) ==
    /\ registers' = x.after.registers
    /\ pc' = x.after.pc
    /\ memory' = x.after.memory
    /\ reservation_sets' = x.after.sets
    /\ phase' = IF x.after.panic THEN "panicked" ELSE phase
    /\ op' = [After(op, "insn") EXCEPT
                          !.address = pc, !.word = x.word,
                          !.ok = ~x.after.panic, !.ret = x.handler.pc]

\* One turn of the loop of emulate(), in a build with overflow checks
\* (debug) or without: they differ where an unchecked addition overflows.
Step(debug) ==
    /\ phase = "running"
    /\ steps < MaxSteps
    /\ Stepped(Execute(ThePlatform, debug))
    /\ steps' = steps + 1
    /\ UNCHANGED <<uart_registers, output>>

(***************************************************************************)
(* The emulator: main loads a DTB and a kernel, then emulate() runs the    *)
(* kernel.  The kernels are sequences of instruction words.                *)
(***************************************************************************)

\* Instruction words (u32) from their fields; imm is the two's complement
\* of the immediate in the width of its field.
EncR(opcode, rd, func3, rs1, rs2, func7) ==
    <<opcode + 128 * rd + 4096 * func3 + 32768 * (rs1 % 2),
      (rs1 \div 2) + 16 * rs2 + 512 * func7>>

EncI(opcode, rd, func3, rs1, imm) ==
    EncR(opcode, rd, func3, rs1, imm % 32, (imm \div 32) % 128)

EncS(opcode, func3, rs1, rs2, imm) ==
    EncR(opcode, imm % 32, func3, rs1, rs2, (imm \div 32) % 128)

EncB(func3, rs1, rs2, imm) ==
    EncR(OPCODE_BRANCH, 2 * ((imm \div 2) % 16) + ((imm \div 2048) % 2),
         func3, rs1, rs2, 64 * ((imm \div 4096) % 2) + ((imm \div 32) % 64))

EncU(opcode, rd, imm) ==
    <<opcode + 128 * rd + 4096 * (imm % 16), imm \div 16>>

EncJ(rd, imm) ==
    EncU(OPCODE_JAL, rd,
         524288 * ((imm \div 1048576) % 2) + 512 * ((imm \div 2) % 1024)
            + 256 * ((imm \div 2048) % 2) + ((imm \div 4096) % 256))

\* The two's complement of n in `bits` bits.
Imm(n, bits) == (n + 2 ^ bits) % (2 ^ bits)

\* The registers the kernels use.
T0 == 5

T1 == 6

T2 == 7

A1 == RegisterNames_a1

NOP == EncI(OPCODE_INT_REG_IMM, 0, FUNC3_ADDI, 0, 0)

\* A DTB: the magic number d00dfeed; as data, the u32 0xedfe0dd0.
Dtb == <<208, 13, 254, 237>>

\* The address the DTB is loaded at, left in a1: the data of the kernels.
DataOffset == 16

\* The bytes of a kernel.
RECURSIVE KernelBytes(_)
KernelBytes(words) ==
    IF words = <<>> THEN <<>>
    ELSE to_le_bytes(Head(words), 4) \o KernelBytes(Tail(words))

\* First instructions: nothing, a negative value in t0, a reservation.
Setups ==
    {NOP,
     EncI(OPCODE_INT_REG_IMM, T0, FUNC3_ADDI, 0, Imm(-3, 12)),
     EncR(OPCODE_ATOMIC, T2, FUNC3_RV32_ATOMIC, A1, 0, FUNC7_LR)}

IntInsns ==
    {EncI(OPCODE_INT_REG_IMM, 0, FUNC3_ADDI, A1, 7),
     EncI(OPCODE_INT_REG_IMM, T1, FUNC3_ADDI, T0, 1),
     EncI(OPCODE_INT_REG_IMM, T1, FUNC3_ADDI, A1, 0),
     EncI(OPCODE_INT_REG_IMM, T1, FUNC3_ANDI, A1, 255),
     EncI(OPCODE_INT_REG_IMM, 0, FUNC3_ORI, T0, 1),
     EncI(OPCODE_INT_REG_IMM, T1, FUNC3_ORI, A1, 1),
     EncI(OPCODE_INT_REG_IMM, T1, FUNC3_XORI, T0, Imm(-1, 12)),
     EncI(OPCODE_INT_REG_IMM, T1, FUNC3_SLTI, T0, 0),
     EncI(OPCODE_INT_REG_IMM, T1, FUNC3_SLTIU, T0, 1),
     EncI(OPCODE_INT_REG_IMM, T1, FUNC3_SLLI, A1, 33),
     EncI(OPCODE_INT_REG_IMM, T1, FUNC3_SRLI, T0, 1),
     EncI(OPCODE_INT_REG_IMM, T1, FUNC3_SRLI, T0, 1024 + 1),
     EncR(OPCODE_INT_REG_REG, T1, FUNC3_ADD, T0, A1, FUNC7_ADD),
     EncR(OPCODE_INT_REG_REG, T1, FUNC3_ADD, T0, A1, FUNC7_SUB),
     EncR(OPCODE_INT_REG_REG, 0, FUNC3_ADD, A1, T0, FUNC7_SUB),
     EncR(OPCODE_INT_REG_REG, T1, FUNC3_ANDI, T0, A1, 0),
     EncI(OPCODE_INT_REG_IMM_32, T1, FUNC3_ADDIW, A1, Imm(-1, 12)),
     EncI(OPCODE_INT_REG_IMM_32, 0, FUNC3_ADDIW, A1, 1),
     EncI(OPCODE_INT_REG_IMM_32, T1, FUNC3_SLLIW, A1, 1),
     EncI(OPCODE_INT_REG_IMM_32, T1, FUNC3_SRLIW, T0, 1),
     EncI(OPCODE_INT_REG_IMM_32, T1, FUNC3_SRLIW, T0, 1024 + 1),
     EncI(OPCODE_INT_REG_IMM_32, T1, FUNC3_SLTI, T0, 1),
     EncU(OPCODE_LUI, T1, 524288),
     EncU(OPCODE_LUI, 0, 1),
     EncU(OPCODE_AUIPC, T1, 1),
     EncU(OPCODE_AUIPC, 0, 1),
     EncR(OPCODE_INT_REG_REG_32, T1, FUNC3_ADD, T0, A1, FUNC7_ADD),
     EncI(127, T1, 0, T0, 0)}

SystemInsns ==
    {EncI(OPCODE_SYSTEM, rd, func3, T0, 768) :
        rd \in {0, T1},
        func3 \in {FUNC3_CSRRW, FUNC3_CSRRS, FUNC3_CSRRC, FUNC3_CSRRWI,
                   FUNC3_CSRRSI, FUNC3_CSRRCI}}
    \cup {EncI(OPCODE_SYSTEM, 0, 0, 0, 0),
          EncI(OPCODE_MISCMEM, 0, 0, 0, 255),
          EncI(OPCODE_MISCMEM, 0, 1, 0, 0),
          EncI(OPCODE_MISCMEM, T1, 0, 0, 255)}

\* Stores to the data, to an address that holds the first bytes only, to an
\* address outside of the memory; loads likewise.
MemoryInsns ==
    {EncS(OPCODE_STORE, func3, A1, T0, 0) :
        func3 \in {FUNC3_SB, FUNC3_SH, FUNC3_SW, FUNC3_SD, 4}}
    \cup {EncS(OPCODE_STORE, FUNC3_SW, A1, A1, Imm(-2, 12)),
          EncS(OPCODE_STORE, FUNC3_SW, 0, T0, 4),
          EncS(OPCODE_STORE, FUNC3_SB, 0, T0, Imm(-1, 12)),
          EncS(OPCODE_STORE, FUNC3_SD, A1, T0, 12)}
    \cup {EncI(OPCODE_LOAD, T1, func3, A1, 0) :
             func3 \in {FUNC3_LB, FUNC3_LH, FUNC3_LW, FUNC3_LD, FUNC3_LBU,
                        FUNC3_LHU, FUNC3_LWU, 7}}
    \cup {EncI(OPCODE_LOAD, 0, FUNC3_LW, A1, 0),
          EncI(OPCODE_LOAD, 0, FUNC3_LW, 0, 4),
          EncI(OPCODE_LOAD, 0, FUNC3_LD, A1, 12 * 32)}

JumpInsns ==
    {EncJ(1, 8), EncJ(0, 0), EncJ(1, Imm(-4, 21)), EncJ(0, 4),
     EncI(OPCODE_JALR, 1, 0, A1, 1),
     EncI(OPCODE_JALR, 0, 0, A1, 0),
     EncI(OPCODE_JALR, 0, 0, 0, 8)}
    \cup {EncB(func3, rs[1], rs[2], imm) :
             func3 \in {FUNC3_BEQ, FUNC3_BNE, FUNC3_BLT, FUNC3_BGE,
                        FUNC3_BLTU, FUNC3_BGEU},
             rs \in {<<0, 0>>, <<T0, A1>>},
             imm \in {8, Imm(-4, 13)}}
    \cup {EncB(FUNC3_BEQ, 0, 0, 0), EncB(FUNC3_BEQ, 0, 0, 4),
          EncB(2, 0, 0, 8)}

AtomicInsns ==
    {EncR(OPCODE_ATOMIC, rd, func3, A1, T0, func7) :
        rd \in {0, T1},
        func3 \in {FUNC3_RV32_ATOMIC, FUNC3_RV64_ATOMIC},
        func7 \in {FUNC7_LR, FUNC7_SC, FUNC7_AMOADD, FUNC7_AMOSWAP}}
    \cup {EncR(OPCODE_ATOMIC, T1, func3, A1, T0, func7) :
             func3 \in {FUNC3_RV32_ATOMIC, FUNC3_RV64_ATOMIC},
             func7 \in {FUNC7_AMOXOR, FUNC7_AMOAND, FUNC7_AMOOR, 64}}
    \cup {EncR(OPCODE_ATOMIC, T0, FUNC3_RV64_ATOMIC, A1, T0, FUNC7_AMOADD),
          EncR(OPCODE_ATOMIC, T1, FUNC3_RV64_ATOMIC, A1, A1, FUNC7_AMOADD + 2),
          EncR(OPCODE_ATOMIC, T1, FUNC3_RV32_ATOMIC, 0, 0, FUNC7_LR),
          EncR(OPCODE_ATOMIC, T1, FUNC3_RV32_ATOMIC, 0, T0, FUNC7_AMOSWAP)}

Kernels ==
    {<<a, b>> :
        a \in Setups,
        b \in IntInsns \cup SystemInsns \cup MemoryInsns \cup JumpInsns
                \cup AtomicInsns}

\* <<dtb, dtb_load_address>>: loaded behind the kernel; ending at the end
\* of the memory; too long for the memory; outside of the memory, below it
\* and at its end.
DtbArgs ==
    {<<Dtb, MemAddr(DataOffset)>>, <<Dtb, MemAddr(MEMORY_SIZE - Len(Dtb))>>,
     <<Dtb, MemAddr(MEMORY_SIZE - 2)>>, <<Dtb, BvZero(64)>>,
     <<Dtb, MEMORY_END>>}

\* <<kernel, kernel_load_address, entry_point>>: each kernel at the base of
\* the memory; one entered at its second instruction; one too long for the
\* memory.
KernelArgs ==
    {<<KernelBytes(k), MEMORY_BASE, MEMORY_BASE>> : k \in Kernels}
    \cup {<<KernelBytes(<<NOP, NOP>>), MEMORY_BASE, MemAddr(4)>>,
          <<KernelBytes(<<NOP, NOP>>), MemAddr(MEMORY_SIZE - 4), MEMORY_BASE>>}

Init ==
    /\ InitPlatform
    /\ InitUart
    /\ phase = "init"
    /\ steps = 0
    /\ op = NoOp

Next ==
    \/ \E x \in DtbArgs : LoadDtb(x[1], x[2])
    \/ \E x \in KernelArgs : LoadKernel(x[1], x[2], x[3])
    \/ Emulate
    \/ \E debug \in BOOLEAN : Step(debug)

Spec == Init /\ [][Next]_vars

(***************************************************************************)
(* The emulator on kernels that load-reserve, move the address or store,   *)
(* then store-conditionally.                                               *)
(***************************************************************************)

\* A DTB of eight bytes, for the accesses of eight bytes.
Dtb8 == <<208, 13, 254, 237, 1, 2, 3, 132>>

AtomicKernels ==
    {<<a, b, c>> :
        a \in {EncR(OPCODE_ATOMIC, T0, FUNC3_RV32_ATOMIC, A1, 0, FUNC7_LR),
               EncR(OPCODE_ATOMIC, T0, FUNC3_RV64_ATOMIC, A1, 0, FUNC7_LR),
               EncR(OPCODE_ATOMIC, 0, FUNC3_RV32_ATOMIC, A1, 0, FUNC7_LR),
               EncI(OPCODE_INT_REG_IMM, T0, FUNC3_ADDI, 0, Imm(-3, 12))},
        b \in {NOP,
               EncS(OPCODE_STORE, FUNC3_SW, A1, A1, 0)}
              \cup {EncI(OPCODE_INT_REG_IMM, A1, FUNC3_ADDI, A1, Imm(n, 12)) :
                       n \in {-4, -3, -2, -1, 1, 2, 3, 4}},
        c \in {EncR(OPCODE_ATOMIC, T1, FUNC3_RV32_ATOMIC, A1, A1, FUNC7_SC),
               EncR(OPCODE_ATOMIC, T1, FUNC3_RV64_ATOMIC, A1, A1, FUNC7_SC),
               EncR(OPCODE_ATOMIC, 0, FUNC3_RV32_ATOMIC, A1, T0, FUNC7_SC)}}

AtomicKernelArgs ==
    {<<KernelBytes(k), MEMORY_BASE, MEMORY_BASE>> : k \in AtomicKernels}

NextAtomic ==
    \/ \E dtb \in {Dtb, Dtb8} : LoadDtb(dtb, MemAddr(DataOffset))
    \/ \E x \in AtomicKernelArgs : LoadKernel(x[1], x[2], x[3])
    \/ Emulate
    \/ \E debug \in BOOLEAN : Step(debug)

SpecAtomic == Init /\ [][NextAtomic]_vars

(***************************************************************************)
(* The emulator on kernels of three instructions: two that set t0 and t1   *)
(* (or x1 and x2), then the instruction under test.                        *)
(***************************************************************************)

\* Instructions that set t0: small values of both signs, the least 32-bit
\* value, and the data at a1 as 32 and as 64 bits.
SetT0 ==
    {EncI(OPCODE_INT_REG_IMM, T0, FUNC3_ADDI, 0, Imm(-3, 12)),
     EncI(OPCODE_INT_REG_IMM, T0, FUNC3_ADDI, 0, 5),
     EncU(OPCODE_LUI, T0, 524288),
     EncR(OPCODE_ATOMIC, T0, FUNC3_RV32_ATOMIC, A1, 0, FUNC7_LR),
     EncR(OPCODE_ATOMIC, T0, FUNC3_RV64_ATOMIC, A1, 0, FUNC7_LR)}

\* Instructions that set t1: 7, -1, and the value of t0.
SetT1 ==
    {EncI(OPCODE_INT_REG_IMM, T1, FUNC3_ADDI, 0, 7),
     EncI(OPCODE_INT_REG_IMM, T1, FUNC3_ADDI, 0, Imm(-1, 12)),
     EncI(OPCODE_INT_REG_IMM, T1, FUNC3_ADDI, T0, 0)}

\* Stores of t0 to the data, behind it, before it, to an odd address whose
\* last bytes may lie outside of the memory, and to t1 + 1.
StoreTests ==
    {EncS(OPCODE_STORE, func3, A1, T0, Imm(n, 12)) :
        func3 \in {FUNC3_SB, FUNC3_SH, FUNC3_SW, FUNC3_SD},
        n \in {0, 8, -4, 9}}
    \cup {EncS(OPCODE_STORE, FUNC3_SW, T1, T0, 1)}

\* Loads to t2 of every width, from the data and from its second half.
LoadTests ==
    {EncI(OPCODE_LOAD, T2, func3, A1, n) :
        func3 \in {FUNC3_LB, FUNC3_LH, FUNC3_LW, FUNC3_LD, FUNC3_LBU,
                   FUNC3_LHU, FUNC3_LWU},
        n \in {0, 4}}

\* Branches on t0 and t1: forwards, backwards, by 0 and by 2.
BranchTests ==
    {EncB(func3, T0, T1, Imm(n, 13)) :
        func3 \in {FUNC3_BEQ, FUNC3_BNE, FUNC3_BLT, FUNC3_BGE, FUNC3_BLTU,
                   FUNC3_BGEU},
        n \in {8, -4, 0, 2}}

\* Jumps: 0x008000EF (jal x1, +8), backwards, by 0; jalr to an odd address,
\* with rd = rs1, and through t0.
JumpTests ==
    {EncJ(1, 8), EncJ(T2, Imm(-4, 21)), EncJ(0, 0),
     EncI(OPCODE_JALR, T2, 0, A1, Imm(-13, 12)),
     EncI(OPCODE_JALR, A1, 0, A1, Imm(-8, 12)),
     EncI(OPCODE_JALR, T0, 0, T0, 4)}

\* The immediates of the register-immediate instructions.
ImmTests ==
    {EncI(OPCODE_INT_REG_IMM, T2, func3, T0, Imm(n, 12)) :
        func3 \in {FUNC3_ADDI, FUNC3_SLTI, FUNC3_SLTIU, FUNC3_XORI, FUNC3_ORI,
                   FUNC3_ANDI},
        n \in {0, 1, 5, 2047, -1, -3, -2048}}
    \cup {EncI(OPCODE_INT_REG_IMM, T2, FUNC3_SLLI, T0, n) :
             n \in {0, 1, 31, 32, 63, 64 + 1, 4032 + 4}}
    \cup {EncI(OPCODE_INT_REG_IMM, T0, FUNC3_ADDI, T0, 1)}

\* Shifts to the right, with bit 10 of the immediate clear and set.
ShiftRightTests ==
    {EncI(OPCODE_INT_REG_IMM, T2, FUNC3_SRLI, T0, n + b) :
        n \in {0, 1, 4, 63}, b \in {0, 1024}}

\* The 32-bit register-immediate instructions.
Imm32Tests ==
    {EncI(OPCODE_INT_REG_IMM_32, T2, FUNC3_ADDIW, T0, Imm(n, 12)) :
        n \in {0, 1, 2047, -1}}
    \cup {EncI(OPCODE_INT_REG_IMM_32, T2, func3, T0, n + b) :
             func3 \in {FUNC3_SLLIW, FUNC3_SRLIW},
             n \in {0, 1, 31}, b \in {0, 1024}}

\* The register-register instructions: every func3, func7 of ADD, SUB and
\* others.
RegRegTests ==
    {EncR(OPCODE_INT_REG_REG, T2, FUNC3_ADD, T0, T1, func7) :
        func7 \in {FUNC7_ADD, FUNC7_SUB, 1, 33, 64, 127}}
    \cup {EncR(OPCODE_INT_REG_REG, T2, func3, T0, T1, func7) :
             func3 \in 1..7, func7 \in {FUNC7_ADD, FUNC7_SUB}}

\* CSRRW and CSRRWI, with and without rd.
CsrTests ==
    {EncI(OPCODE_SYSTEM, rd, func3, T0, csr) :
        rd \in {0, T2}, func3 \in {FUNC3_CSRRW, FUNC3_CSRRWI},
        csr \in {768, 4095}}

\* 0x00208133 (add x2, x1, x2) with x1 = 5 and x2 = 7; 0xFE010113
\* (addi x2, x2, -32) with x2 = 0x1000; 0x00100093 (addi x1, x0, 1); a store
\* of each width followed by the load of the same width and address.
ScenarioKernels ==
    {<<EncI(OPCODE_INT_REG_IMM, 1, FUNC3_ADDI, 0, 5),
       EncI(OPCODE_INT_REG_IMM, 2, FUNC3_ADDI, 0, 7),
       EncR(OPCODE_INT_REG_REG, 2, FUNC3_ADD, 1, 2, FUNC7_ADD)>>,
     <<NOP, EncU(OPCODE_LUI, 2, 1),
       EncI(OPCODE_INT_REG_IMM, 2, FUNC3_ADDI, 2, Imm(-32, 12))>>,
     <<NOP, NOP, EncI(OPCODE_INT_REG_IMM, 1, FUNC3_ADDI, 0, 1)>>}
    \cup {<<EncI(OPCODE_INT_REG_IMM, T0, FUNC3_ADDI, 0, Imm(-3, 12)),
            EncS(OPCODE_STORE, func3, A1, T0, 8),
            EncI(OPCODE_LOAD, T2, func3, A1, 8)>> :
             func3 \in {FUNC3_SB, FUNC3_SH, FUNC3_SW, FUNC3_SD}}

InsnKernels ==
    {<<a, b, c>> :
        a \in SetT0, b \in SetT1,
        c \in StoreTests \cup LoadTests \cup BranchTests \cup JumpTests
                \cup ImmTests \cup ShiftRightTests \cup Imm32Tests
                \cup RegRegTests \cup CsrTests}
    \cup ScenarioKernels

InsnKernelArgs ==
    {<<KernelBytes(k), MEMORY_BASE, MEMORY_BASE>> : k \in InsnKernels}

NextInsn ==
    \/ LoadDtb(Dtb8, MemAddr(DataOffset))
    \/ \E x \in InsnKernelArgs : LoadKernel(x[1], x[2], x[3])
    \/ Emulate
    \/ \E debug \in BOOLEAN : Step(debug)

SpecInsn == Init /\ [][NextInsn]_vars

(***************************************************************************)
(* The emulator on kernels of three instructions for the upper immediates, *)
(* the CSRs, the AMOs, the accesses outside of every device and the        *)
(* sequences of LR, stores and SC.                                         *)
(***************************************************************************)

\* DTBs whose first eight bytes are the address of the byte 8 (4) beyond
\* the DTB itself: LR.D t0, (a1) loads that address.
DtbPointer(n) ==
    to_le_bytes(MemAddr(DataOffset + n), 8)

\* LUI and AUIPC (0x00000097 is auipc x1, 0).
UiTests ==
    {EncU(opcode, rd, imm) :
        opcode \in {OPCODE_LUI, OPCODE_AUIPC}, rd \in {0, 1},
        imm \in {0, 1, 524287, 524288, 1048575}}

\* CSRRS, CSRRC, CSRRSI, CSRRCI on the CSR 0x300.
CsrSetClearTests ==
    {EncI(OPCODE_SYSTEM, rd, func3, rs1, 768) :
        rd \in {0, T2},
        func3 \in {FUNC3_CSRRS, FUNC3_CSRRC, FUNC3_CSRRSI, FUNC3_CSRRCI},
        rs1 \in {0, T0, 31}}

\* The AMOs on the data at a1 with rs2 = t0, with rd another register, rs2,
\* rs1 and x0; AMOSWAP also with aq and rl.
AmoTests ==
    {EncR(OPCODE_ATOMIC, rd, func3, A1, T0, func7) :
        rd \in {T2, T0, A1, 0},
        func3 \in {FUNC3_RV32_ATOMIC, FUNC3_RV64_ATOMIC},
        func7 \in {FUNC7_AMOADD, FUNC7_AMOAND, FUNC7_AMOOR, FUNC7_AMOXOR,
                   FUNC7_AMOSWAP, FUNC7_AMOSWAP + 3}}

\* Stores and loads at addresses around 4, which no device covers.
NoDeviceTests ==
    {EncS(OPCODE_STORE, func3, 0, T0, 4) :
        func3 \in {FUNC3_SB, FUNC3_SH, FUNC3_SW, FUNC3_SD}}
    \cup {EncI(OPCODE_LOAD, rd, func3, 0, 4) :
             rd \in {0, T2},
             func3 \in {FUNC3_LB, FUNC3_LH, FUNC3_LW, FUNC3_LD, FUNC3_LBU,
                        FUNC3_LHU, FUNC3_LWU}}

LrSc(func7, rd, func3, rs1, rs2) ==
    EncR(OPCODE_ATOMIC, rd, func3, rs1, rs2, func7)

AtomicWidths == {FUNC3_RV32_ATOMIC, FUNC3_RV64_ATOMIC}

\* LR at a1, which loads the other address to t0; LR there; SC at either.
TwoLrKernels ==
    {<<LrSc(FUNC7_LR, T0, FUNC3_RV64_ATOMIC, A1, 0),
       LrSc(FUNC7_LR, T1, f, T0, 0),
       LrSc(FUNC7_SC, T2, g, r, T1)>> :
        f \in AtomicWidths, g \in AtomicWidths, r \in {A1, T0}}

\* LR at a1; a store or an AMO of the hart to the reservation or next to
\* it; SC at a1.
OwnStoreKernels ==
    {<<LrSc(FUNC7_LR, T0, f, A1, 0), s, LrSc(FUNC7_SC, T2, g, A1, T0)>> :
        f \in AtomicWidths, g \in AtomicWidths,
        s \in {EncS(OPCODE_STORE, func3, A1, T0, n) :
                  func3 \in {FUNC3_SB, FUNC3_SH, FUNC3_SW, FUNC3_SD},
                  n \in {0, 3}}
              \cup {EncR(OPCODE_ATOMIC, T1, func3, A1, T0, func7) :
                       func3 \in AtomicWidths,
                       func7 \in {FUNC7_AMOSWAP, FUNC7_AMOOR}}}

\* LR at a1; SC at a1, at the address 0 and at the address in t0; SC at a1.
TwoScKernels ==
    {<<LrSc(FUNC7_LR, T0, f, A1, 0), LrSc(FUNC7_SC, T1, g, r, T0),
       LrSc(FUNC7_SC, T2, h, A1, T0)>> :
        f \in AtomicWidths, g \in AtomicWidths, h \in AtomicWidths,
        r \in {A1, 0, T0}}

SeqKernels ==
    {<<a, NOP, b>> : a \in UiTests, b \in UiTests}
    \cup {<<a, b, c>> :
             a \in {NOP, EncI(OPCODE_INT_REG_IMM, T0, FUNC3_ADDI, 0,
                              Imm(-3, 12))},
             b \in {NOP, EncI(OPCODE_SYSTEM, 0, FUNC3_CSRRW, T0, 768)},
             c \in CsrSetClearTests}
    \cup {<<a, NOP, c>> :
             a \in {EncI(OPCODE_INT_REG_IMM, T0, FUNC3_ADDI, 0, n) :
                       n \in {5, Imm(-3, 12)}},
             c \in AmoTests}
    \cup {<<a, NOP, NOP>> : a \in NoDeviceTests}
    \cup {<<NOP, NOP, a>> : a \in NoDeviceTests}
    \cup TwoLrKernels \cup OwnStoreKernels \cup TwoScKernels

SeqKernelArgs ==
    {<<KernelBytes(k), MEMORY_BASE, MEMORY_BASE>> : k \in SeqKernels}

NextSeq ==
    \/ \E dtb \in {Dtb8, DtbPointer(8), DtbPointer(4)} :
          LoadDtb(dtb, MemAddr(DataOffset))
    \/ \E x \in SeqKernelArgs : LoadKernel(x[1], x[2], x[3])
    \/ Emulate
    \/ \E debug \in BOOLEAN : Step(debug)

SpecSeq == Init /\ [][NextSeq]_vars

(***************************************************************************)
(* The UART alone: bus reads and writes of its registers.                  *)
(***************************************************************************)

MaxUartOps == 3

MaxLineOps == 1

\* uart.read::<T>(address)
UartBusRead(address, W) ==
    /\ phase = "running"
    /\ LET r == UartRead(uart_registers, output, address, W)
       IN  /\ op' = [After(op, "uart_read") EXCEPT !.address = address,
                                 !.size = W, !.ok = (r.kind = "Ok"),
                                 !.err = r.err, !.ret = r.value]
           /\ phase' = IF r.kind = "Panic" THEN "panicked" ELSE phase
           /\ uart_registers' = r.registers
           /\ output' = r.output
    /\ steps' = steps + 1
    /\ UNCHANGED <<registers, pc, memory, reservation_sets>>

\* uart.write::<T, usize>(address, value)
UartBusWrite(address, value, W) ==
    /\ phase = "running"
    /\ LET r == UartWrite(uart_registers, output, address, value, W)
       IN  /\ op' = [After(op, "uart_write") EXCEPT !.address = address,
                                 !.size = W, !.value = value,
                                 !.ok = (r.kind = "Ok"), !.err = r.err]
           /\ phase' = IF r.kind = "Panic" THEN "panicked" ELSE phase
           /\ uart_registers' = r.registers
           /\ output' = r.output
    /\ steps' = steps + 1
    /\ UNCHANGED <<registers, pc, memory, reservation_sets>>

\* <<address, W>> of the reads: one and two bytes at every register address
\* and at the first address that is no register; wider reads of readable
\* and of unreadable registers.
UartReadArgs ==
    {<<Usize(n), 1>> : n \in 0..Len(RegisterAddress)}
    \cup {<<Usize(n), 2>> : n \in 0..Len(RegisterAddress)}
    \cup {<<Usize(0), 4>>, <<Usize(3), 4>>, <<Usize(6), 8>>, <<Usize(1), 8>>}

\* <<address, W, value>> of the writes: bytes to the data registers, to
\* each other register and outside of the registers; wider writes.
UartWriteArgs ==
    {<<Usize(n), 1, <<b>>>> : n \in {0, 1}, b \in {27, 255}}
    \cup {<<Usize(n), 1, <<b>>>> :
              n \in 2..Len(RegisterAddress), b \in {7, 252}}
    \cup {<<Usize(n), 2, NatToBv(257, 16)>> : n \in 0..Len(RegisterAddress)}
    \cup {<<Usize(0), 4, NatToBv(257, 32)>>, <<Usize(3), 4, NatToBv(257, 32)>>,
          <<Usize(4), 8, NatToBv(257, 64)>>, <<Usize(6), 8, NatToBv(257, 64)>>}

NextUart ==
    \/ \E x \in UartReadArgs :
          steps < MaxUartOps /\ UartBusRead(x[1], x[2])
    \/ \E x \in UartWriteArgs :
          steps < MaxUartOps /\ UartBusWrite(x[1], x[3], x[2])

SpecUart == InitRunning /\ [][NextUart]_vars

\* The line control register alone: every byte written to it, and read
\* back.
NextUartLine ==
    \/ \E b \in 0..255 :
          /\ steps < MaxLineOps
          /\ UartBusWrite(RegisterAddressInto("LineControl"), <<b>>, 1)
    \/ /\ steps < MaxLineOps + 1
       /\ op.name = "uart_write"
       /\ UartBusRead(RegisterAddressInto("LineControl"), 1)

SpecUartLine == InitRunning /\ [][NextUartLine]_vars

(***************************************************************************)
(* The register file of the UART: read_at and write_at of every register.  *)
(***************************************************************************)

MaxRegOps == 2

\* uart.read_at(address)
ReadAt(address) ==
    /\ phase = "running"
    /\ LET r == read_at(uart_registers, address)
       IN  /\ op' = [After(op, "read_at") EXCEPT
                        !.address = RegisterAddressInto(address), !.size = 1,
                        !.ok = (r.kind = "Ok"), !.err = r.err,
                        !.ret = <<r.value>>]
           /\ uart_registers' = r.registers
    /\ steps' = steps + 1
    /\ UNCHANGED <<registers, pc, memory, reservation_sets, output, phase>>

\* uart.write_at(address, value)
WriteAt(address, value) ==
    /\ phase = "running"
    /\ LET r == write_at(uart_registers, address, value)
       IN  /\ op' = [After(op, "write_at") EXCEPT
                        !.address = RegisterAddressInto(address), !.size = 1,
                        !.value = <<value>>, !.ok = (r.kind = "Ok"),
                        !.err = r.err]
           /\ uart_registers' = r.registers
    /\ steps' = steps + 1
    /\ UNCHANGED <<registers, pc, memory, reservation_sets, output, phase>>

NextUartReg ==
    \/ \E i \in 1..Len(RegisterAddress) :
          steps < MaxRegOps /\ ReadAt(RegisterAddress[i])
    \/ \E i \in 1..Len(RegisterAddress), b \in {7, 252} :
          steps < MaxRegOps /\ WriteAt(RegisterAddress[i], b)

SpecUartReg == InitRunning /\ [][NextUartReg]_vars

(***************************************************************************)
(* The decoder alone: an instruction word is parsed.                       *)
(***************************************************************************)

\* The bits 31:7 of the words: none, all, one bit set, one bit clear,
\* alternating bits, and the immediate field 0xFFF of the I-type alone.
ParsePayloads ==
    {0, (2 ^ 25) - 1, 11184810, 22369621, 4095 * 8192}
    \cup {2 ^ k : k \in 0..24}
    \cup {(2 ^ 25) - 1 - (2 ^ k) : k \in 0..24}

\* The opcodes of the words: those of the first match of Insn::parse, and
\* one that falls to its last arm.
ParseOpcodes ==
    {OPCODE_LUI, OPCODE_AUIPC, OPCODE_JAL, OPCODE_JALR, OPCODE_INT_REG_IMM,
     OPCODE_INT_REG_REG, OPCODE_LOAD, OPCODE_STORE, OPCODE_SYSTEM,
     OPCODE_MISCMEM, OPCODE_BRANCH, OPCODE_ATOMIC, OPCODE_INT_REG_IMM_32,
     OPCODE_INT_REG_REG_32, 0}

ParseWords ==
    {<<opcode + 128 * (p % 512), p \div 512>> :
        opcode \in ParseOpcodes, p \in ParsePayloads}

InitParse ==
    /\ InitPlatform
    /\ InitUart
    /\ phase = "init"
    /\ steps = 0
    /\ op \in {[NoOp EXCEPT !.name = "parse_input", !.word = w] :
                  w \in ParseWords}

\* Insn::from(input): parse on Insn::default(); todo!() panics.
Parse ==
    /\ op.name = "parse_input"
    /\ op' = [After(op, "parse") EXCEPT
                 !.word = op.word,
                 !.ok = (InsnTypeOf(op.word) # "todo"),
                 !.ret = IF InsnTypeOf(op.word) # "todo"
                         THEN <<parse(op.word)>> ELSE <<>>]
    /\ phase' = IF InsnTypeOf(op.word) = "todo" THEN "panicked" ELSE phase
    /\ steps' = steps + 1
    /\ UNCHANGED <<registers, pc, memory, reservation_sets, uart_registers,
                 output>>

NextParse == Parse

SpecParse == InitParse /\ [][NextParse]_vars

(***************************************************************************)
(* Properties of the codec, the bus and the reservation sets               *)
(***************************************************************************)

\* (v >> 8i) & 0xFF
ByteOf(v, i) ==
    BvAnd(BvShr(v, 8 * i), Hex(<<15, 15>>, 16 * Len(v)))[1]

\* address - base as a number (addresses at or above the base): the offset
\* of the byte in the memory, MEMORY_SIZE for every address beyond it.
OffsetOf(address) ==
    IF BvULess(address, MEMORY_BASE) THEN MEMORY_SIZE
    ELSE BvToNatCapped(BvSub(address, MEMORY_BASE), MEMORY_SIZE)

\* [address, address + W) lies in the memory
Contained(address, W) == OffsetOf(address) + W <= MEMORY_SIZE

\* The byte ranges [ra, ra + rs) and [a, a + s) share a byte (addresses in
\* the memory).
Intersects(ra, rs, a, s) ==
    \E k \in 0..(MEMORY_SIZE + 8) :
        /\ OffsetOf(ra) <= k /\ k < OffsetOf(ra) + rs
        /\ OffsetOf(a) <= k /\ k < OffsetOf(a) + s

\* C10: for every width W in {1,2,4,8} and every W-byte value v,
\* from_le_bytes(to_le_bytes(v)) = v and to_le_bytes(v)[i] = (v >> 8i) & 0xFF
\* for 0 <= i < W.
C10_LeRoundTrip ==
    /\ op.name \in {"to_le_bytes", "from_le_bytes"} =>
          /\ Len(op.bytes) = op.size
          /\ \A i \in 0..(op.size - 1) : op.bytes[i + 1] = ByteOf(op.value, i)
    /\ op.name = "from_le_bytes" => op.ret = op.value

\* A u64 whose eight bytes differ has been encoded and decoded.
C10_Witness ==
    /\ op.name = "from_le_bytes"
    /\ op.size = 8
    /\ op.bytes = <<239, 205, 171, 137, 103, 69, 35, 1>>
    /\ op.ret = Hex(<<0, 1, 2, 3, 4, 5, 6, 7, 8, 9, 10, 11, 12, 13, 14, 15>>, 64)

\* C8: for every width W, value v and address a with [a, a+W) inside the
\* memory, aligned or not: write(a, v) succeeds, byte a+i then holds bits
\* [8i+7:8i] of v, no byte outside [a, a+W) changes, and a read(a) of the
\* same width that follows returns v.
C8_WriteThenRead ==
    [][/\ (op'.name = "write" /\ Contained(op'.address, op'.size)) =>
            /\ op'.ok
            /\ \A i \in 0..(MEMORY_SIZE - 1) :
                  memory'[i] =
                     IF /\ OffsetOf(op'.address) <= i
                        /\ i < OffsetOf(op'.address) + op'.size
                     THEN ByteOf(op'.value, i - OffsetOf(op'.address))
                     ELSE memory[i]
       /\ (/\ op.name = "write" /\ op.ok
           /\ op'.name = "read"
           /\ op'.address = op.address /\ op'.size = op.size) =>
            /\ op'.ok
            /\ op'.ret = op.value
            /\ memory' = memory]_vars

\* An unaligned 8-byte write at base + 3 has been read back.
C8_Witness ==
    /\ op.name = "read" /\ op.ok
    /\ op.prev = <<"write", TRUE>>
    /\ op.address = MemAddr(3) /\ op.size = 8
    /\ op.ret = Hex(<<0, 1, 2, 3, 4, 5, 6, 7, 8, 9, 10, 11, 12, 13, 14, 15>>, 64)
    /\ memory[3] = 239 /\ memory[10] = 1 /\ memory[2] = 0 /\ memory[11] = 0

\* C9: a bus read or write of width W at an address not wholly contained in
\* a device returns a typed error and changes no state: OutOfBounds when the
\* address lies in the memory but address + W exceeds its end, Unimplemented
\* when no device covers the address; the emulator does not abort.
C9_BusErrorsTyped ==
    [][(/\ op'.name \in {"read", "write"}
        /\ ~Contained(op'.address, op'.size)) =>
            /\ phase' # "panicked"
            /\ ~op'.ok
            /\ op'.err = IF RangeContains(memory_start, memory_end,
                                          op'.address)
                         THEN "OutOfBounds"
                         ELSE "Unimplemented"
            /\ memory' = memory
            /\ registers' = registers
            /\ pc' = pc
            /\ reservation_sets' = reservation_sets]_vars

\* C3: after claim(h, A, s) the first check_and_invalidate(h, A, s) returns
\* true, and every further check_and_invalidate for h made without a new
\* claim returns false: a check returns true only for a valid reservation
\* and leaves it invalid, and only a claim makes a reservation valid.
C3_ClaimThenCheck ==
    [][/\ (/\ op.name = "claim" /\ op.ok
           /\ op'.name = "check_and_invalidate"
           /\ op'.hart = op.hart
           /\ op'.address = op.address /\ op'.size = op.size) => op'.ok
       /\ (op'.name = "check_and_invalidate" /\ op'.ok) =>
            /\ reservation_sets[op'.hart + 1].valid
            /\ ~reservation_sets'[op'.hart + 1].valid
       /\ \A i \in 1..Len(reservation_sets) :
            (~reservation_sets[i].valid /\ reservation_sets'[i].valid) =>
                (op'.name = "claim" /\ op'.hart = i - 1)]_vars

\* A check with the address and size of the reservation returns false right
\* after a check that returned true.
C3_Witness ==
    /\ op.name = "check_and_invalidate" /\ ~op.ok /\ op.err = "none"
    /\ op.prev = <<"check_and_invalidate", TRUE>>
    /\ op.hart = HART_ID
    /\ reservation_sets[HART_ID + 1].address = op.address
    /\ reservation_sets[HART_ID + 1].size = op.size

\* C4: invalidate_other(h, a, s) sets valid = false for exactly the valid
\* reservations of harts other than h whose bytes
\* [res.address, res.address + res.size) intersect [a, a + s), and leaves
\* every other reservation as it is.
C4_InvalidateExact ==
    [][op'.name = "invalidate_other" =>
          /\ op'.ok
          /\ Len(reservation_sets') = Len(reservation_sets)
          /\ \A i \in 1..Len(reservation_sets) :
                reservation_sets'[i] =
                   IF /\ reservation_sets[i].valid
                      /\ reservation_sets[i].hart_id # op'.hart
                      /\ Intersects(reservation_sets[i].address,
                                    reservation_sets[i].size,
                                    op'.address, op'.size)
                   THEN [reservation_sets[i] EXCEPT !.valid = FALSE]
                   ELSE reservation_sets[i]]_vars

\* After claim(0, A, 4), invalidate_other(1, A + 2, 2) has left the
\* reservation of hart 0 invalid.
C4_Witness ==
    /\ op.name = "invalidate_other" /\ op.hart = HART_ID + 1
    /\ op.prev = <<"claim", TRUE>>
    /\ op.address = ResA(2) /\ op.size = 2
    /\ reservation_sets[HART_ID + 1] =
          [address |-> ResA(0), size |-> 4, valid |-> FALSE,
           hart_id |-> HART_ID]

\* C5: after any store of hart h through write_from_hart no other hart holds
\* a valid reservation whose bytes intersect the stored bytes, and the
\* invalidation comes before the write: it is in effect also when the write
\* itself fails, and the memory changes only in a write that succeeds.
C5_StoreInvalidatesOthers ==
    [][op'.name = "write_from_hart" =>
          /\ \A i \in 1..Len(reservation_sets') :
                ~(/\ reservation_sets'[i].valid
                  /\ reservation_sets'[i].hart_id # op'.hart
                  /\ Intersects(reservation_sets'[i].address,
                                reservation_sets'[i].size,
                                op'.address, op'.size))
          /\ memory' # memory => op'.ok]_vars

\* Hart 1 has stored two bytes at A + 2 into the bytes hart 0 had just
\* reserved, and the reservation is invalid.
C5_Witness ==
    /\ op.name = "write_from_hart" /\ op.hart = HART_ID + 1 /\ op.ok
    /\ op.prev = <<"claim", TRUE>>
    /\ op.address = ResA(2) /\ op.size = 2
    /\ reservation_sets[HART_ID + 1].address = ResA(0)
    /\ ~reservation_sets[HART_ID + 1].valid
    /\ memory[10] # 0

(***************************************************************************)
(* Properties of the emulator                                              *)
(***************************************************************************)

\* The step just taken ran an instruction: the word is in op'.word.
InsnStep == op'.name = "insn" /\ steps' = steps + 1 /\ op'.word # <<>>

\* The word is LR (func5 = FUNC7_LR) or SC (FUNC7_SC), .W or .D.
IsAtomic(word, func5) ==
    /\ field_get(word, 0, 7) = OPCODE_ATOMIC
    /\ (field_get(word, 25, 7) \div 4) * 4 = func5
    /\ field_get(word, 12, 3) \in {FUNC3_RV32_ATOMIC, FUNC3_RV64_ATOMIC}

\* The width in bytes of the access of an LR or SC: 4 for .W, 8 for .D.
AccessWidth(word) ==
    IF field_get(word, 12, 3) = FUNC3_RV32_ATOMIC THEN 4 ELSE 8

\* The W bytes of the memory m at the address a, as a value.
ValueAt(m, a, W) == from_le_bytes([i \in 1..W |-> m[OffsetOf(a) + i - 1]])

\* Values written to x0.
X0Values == {Usize(1), BvOnes(64), MEMORY_BASE}

\* C1: in every state reached by loading a DTB and a kernel and executing
\* instructions, x0 reads as 0 (and holds 0), write_register(0, v) changes
\* no register for every v, and every instruction whose rd field is 0
\* leaves the whole register file unchanged.
C1_X0IsZero ==
    /\ [](/\ read_register(registers, 0) = BvZero(64)
          /\ registers[0] = BvZero(64)
          /\ \A v \in X0Values : write_register(registers, 0, v) = registers)
    /\ [][(InsnStep /\ parse(op'.word).rd = 0) => registers' = registers]_vars

\* ADDI x0, a1, 7 has completed with a1 holding the address of the DTB:
\* the sum is not 0 and x0 still is.
C1_Witness ==
    /\ op.name = "insn" /\ op.ok
    /\ op.word = EncI(OPCODE_INT_REG_IMM, 0, FUNC3_ADDI, A1, 7)
    /\ registers[A1] = MemAddr(DataOffset)
    /\ registers[0] = BvZero(64)

\* C2: for every instruction that completes and whose opcode is not JAL,
\* JALR or BRANCH (the nop, FENCE and FENCE.I, a failed SC and a store whose
\* bus write fails included) the PC after it is the PC before it plus 4; for
\* JAL, JALR and BRANCH the PC after it is the one the handler set.
C2_PcAdvances ==
    [][(InsnStep /\ op'.ok) =>
          IF field_get(op'.word, 0, 7) \in
                {OPCODE_JAL, OPCODE_JALR, OPCODE_BRANCH}
          THEN pc' = op'.ret
          ELSE pc' = BvAdd(pc, Usize(4))]_vars

\* SW t0, 4(x0), a store to the address 4 that no device covers, has
\* completed as the second instruction: the memory holds the kernel and the
\* DTB only, and the PC is 4 beyond the store.
C2_Witness ==
    /\ op.name = "insn" /\ op.ok
    /\ op.prev = <<"insn", TRUE>>
    /\ op.word = EncS(OPCODE_STORE, FUNC3_SW, 0, T0, 4)
    /\ op.address = MemAddr(4)
    /\ pc = MemAddr(8)
    /\ \A i \in 8..(DataOffset - 1) : memory[i] = 0

\* C6: SC.W / SC.D with rs1 = A and W = 4 (funct3 010) or 8 (funct3 011)
\* bytes: if the reservation of the hart is valid and its bytes intersect
\* [A, A + W), the low W bytes of rs2 are stored little-endian at A and
\* rd = 0; otherwise rd = 1 and no byte of the memory changes.
C6_ScStoresIffReserved ==
    [][(InsnStep /\ op'.ok /\ IsAtomic(op'.word, FUNC7_SC)) =>
          LET rd == field_get(op'.word, 7, 5)
              A == read_register(registers, field_get(op'.word, 15, 5))
              val == read_register(registers, field_get(op'.word, 20, 5))
              W == AccessWidth(op'.word)
              r == reservation_sets[HART_ID + 1]
          IN  IF r.valid /\ Intersects(r.address, r.size, A, W)
              THEN /\ \A i \in 0..(MEMORY_SIZE - 1) :
                         memory'[i] =
                            IF OffsetOf(A) <= i /\ i < OffsetOf(A) + W
                            THEN ByteOf(val, i - OffsetOf(A))
                            ELSE memory[i]
                   /\ read_register(registers', rd) = BvZero(64)
              ELSE /\ rd # 0 => registers'[rd] = Usize(1)
                   /\ memory' = memory]_vars

\* C7: after LR.W (LR.D) with rs1 = A inside the memory, rd holds the 32-bit
\* value at A sign-extended to 64 bits (the 64-bit value at A), the
\* reservation of the hart is {address = A, size = 4 for LR.W and 8 for
\* LR.D, valid = true}, and the memory is unchanged.
C7_LrReserves ==
    [][(InsnStep /\ op'.ok /\ IsAtomic(op'.word, FUNC7_LR)) =>
          LET rd == field_get(op'.word, 7, 5)
              A == read_register(registers, field_get(op'.word, 15, 5))
              W == AccessWidth(op'.word)
          IN  /\ rd # 0 =>
                    registers'[rd] = BvSext(ValueAt(memory, A, W), 64)
              /\ reservation_sets'[HART_ID + 1] =
                    [address |-> A, size |-> W, valid |-> TRUE,
                     hart_id |-> HART_ID]
              /\ memory' = memory]_vars

\* C11: load_file(blob, load_address) succeeds iff load_address lies in
\* [memory.start, memory.end) and load_address + len <= memory.end; on
\* success the bytes [load_address, load_address + len) of the memory equal
\* the blob and every other byte is unchanged; on rejection an error is
\* returned and no byte of the memory changes.
C11_LoadFile ==
    [][op'.name \in {"load_dtb", "load_kernel"} =>
          LET off == OffsetOf(op'.address)
              len == Len(op'.bytes)
          IN  /\ op'.ok <=> (off < MEMORY_SIZE /\ off + len <= MEMORY_SIZE)
              /\ op'.ok =>
                    \A i \in 0..(MEMORY_SIZE - 1) :
                        memory'[i] = IF off <= i /\ i < off + len
                                     THEN op'.bytes[i - off + 1]
                                     ELSE memory[i]
              /\ ~op'.ok => (memory' = memory /\ phase' = "exited")]_vars

\* A DTB that ends at the last byte of the memory was loaded.
C11_Witness ==
    /\ op.name = "load_dtb" /\ op.ok
    /\ op.address = MemAddr(MEMORY_SIZE - Len(Dtb))
    /\ \A i \in 1..Len(Dtb) : memory[MEMORY_SIZE - Len(Dtb) + i - 1] = Dtb[i]
    /\ \A i \in 0..(MEMORY_SIZE - Len(Dtb) - 1) : memory[i] = 0

\* C12: a successful load_dtb(dtb, addr) sets a1 (x11) to addr and changes
\* no other register and not the pc; a rejected load_dtb leaves every
\* register unchanged.
C12_LoadDtbSetsA1 ==
    [][op'.name = "load_dtb" =>
          /\ pc' = pc
          /\ registers' = IF op'.ok
                          THEN [registers EXCEPT ![11] = op'.address]
                          ELSE registers]_vars

\* A DTB was loaded and a1 holds its address.
C12_Witness ==
    /\ op.name = "load_dtb" /\ op.ok
    /\ op.address = MemAddr(DataOffset)
    /\ registers[11] = MemAddr(DataOffset)
    /\ \A i \in (0..31) \ {11} : registers[i] = BvZero(64)
    /\ pc = BvZero(64)

\* A one-byte write (read) of the UART at one of the register addresses in
\* `offsets` is the step taken.
UartWriteAt(offsets) ==
    /\ op'.name = "uart_write" /\ op'.size = 1
    /\ op'.address \in {Usize(n) : n \in offsets}

UartReadAt(offsets) ==
    /\ op'.name = "uart_read" /\ op'.size = 1
    /\ op'.address \in {Usize(n) : n \in offsets}

\* DATA_READY, bit 0 of LineStatus, is set.
DataReady(regs) == regs.line_status % 2 = 1

\* C13: a freshly constructed UART has LineControl = 0b11, a word length of
\* 8 and one stop bit; after a one-byte write of b to LineControl,
\* word_length() is {0:5, 1:6, 2:7, 3:8}[b & 3] and stop_bit_count() is One
\* when b & 0x04 = 0, else OneAndAHalf when b & 3 = 0 and Two otherwise.
C13_LineControl ==
    /\ [](op.name = "none" =>
             /\ uart_registers.line_control = 3
             /\ word_length(uart_registers) = "EightBits"
             /\ stop_bit_count(uart_registers) = "One")
    /\ [][(UartWriteAt({4}) /\ op'.ok) =>
             LET b == op'.value[1]
             IN  /\ word_length(uart_registers') =
                        <<"FiveBits", "SixBits", "SevenBits", "EightBits">>
                            [(b % 4) + 1]
                 /\ stop_bit_count(uart_registers') =
                        IF (b \div 4) % 2 = 0 THEN "One"
                        ELSE IF b % 4 = 0 THEN "OneAndAHalf" ELSE "Two"]_vars

\* 0xFC was written to LineControl: words of 5 bits, 1.5 stop bits.
C13_Witness ==
    /\ op.name = "uart_write" /\ op.ok /\ op.value = <<252>>
    /\ op.address = Usize(4)
    /\ uart_registers.line_control = 252
    /\ word_length(uart_registers) = "FiveBits"
    /\ stop_bit_count(uart_registers) = "OneAndAHalf"

\* C14: after a successful one-byte write of b to ReceiverBuffer (offset 0)
\* or TransmitterHolding: TransmitterHolding = b, ReceiverBuffer = b, b was
\* appended to the output, DATA_READY is 1, and a following one-byte read at
\* offset 0 (or at the address of TransmitterHolding) returns b.
C14_WriteToDataRegister ==
    [][/\ (UartWriteAt({0, 1}) /\ op'.ok) =>
             /\ uart_registers'.transmitter_holding = op'.value[1]
             /\ uart_registers'.receiver_buffer = op'.value[1]
             /\ output' = Append(output, op'.value[1])
             /\ DataReady(uart_registers')
       /\ (/\ op.name = "uart_write" /\ op.ok /\ op.size = 1
           /\ op.address \in {Usize(0), Usize(1)}
           /\ UartReadAt({0, 1})) =>
             (op'.ok /\ op'.ret = op.value)]_vars

\* C15: the output holds exactly the bytes successfully written to
\* TransmitterHolding (offset 0), in the order of the writes: reads, rejected
\* writes and writes to any other register append nothing.
C15_OutputIsTransmitted ==
    [][op'.name \in {"uart_read", "uart_write"} =>
          output' = IF UartWriteAt({0, 1}) /\ op'.ok
                    THEN Append(output, op'.value[1])
                    ELSE output]_vars

\* C16: a one-byte read at ReceiverBuffer succeeds only when DATA_READY is
\* set; when it is 0 (as on a freshly constructed UART) the read returns the
\* NoData error and changes no register.
C16_ReadNeedsData ==
    [][UartReadAt({0}) =>
          IF DataReady(uart_registers) THEN TRUE
          ELSE /\ ~op'.ok
               /\ op'.err = "NoData"
               /\ uart_registers' = uart_registers]_vars

\* C17: a successful read at ReceiverBuffer clears LineStatus to 0, and a
\* second read at offset 0 with no write or poll in between returns NoData.
C17_ReadClearsStatus ==
    [][/\ (UartReadAt({0}) /\ op'.ok) => uart_registers'.line_status = 0
       /\ (/\ op.name = "uart_read" /\ op.ok /\ op.size = 1
           /\ op.address = Usize(0)
           /\ UartReadAt({0})) =>
             (~op'.ok /\ op'.err = "NoData")]_vars

\* The line status after poll(): BUFFER_OVERRUN (0x02) is added when
\* DATA_READY was set, then DATA_READY (0x01) is set.
PolledStatus(s) ==
    IF s % 2 = 1 THEN s + (IF (s \div 2) % 2 = 0 THEN 2 ELSE 0) ELSE s + 1

\* C18: the UART offers an operation poll() that, in every state, sets
\* BUFFER_OVERRUN when DATA_READY was set, sets DATA_READY, and changes no
\* other register.
C18_PollOffered ==
    (phase = "running" /\ steps < MaxUartOps) =>
        ENABLED (/\ NextUart
                 /\ uart_registers' =
                        [uart_registers EXCEPT
                            !.line_status = PolledStatus(@)]
                 /\ output' = output)

C20_ReadOnlyWriteIsError ==
    [][UartWriteAt({3, 6, 7}) =>
          /\ ~op'.ok
          /\ op'.err = "DisallowedWrite"
          /\ phase' = phase
          /\ uart_registers' = uart_registers
          /\ output' = output]_vars

(***************************************************************************)
(* The instructions, one at a time.  The fields and the immediates of the  *)
(* instruction word are those of the RISC-V encodings.                     *)
(***************************************************************************)

OpcodeOf(word) == field_get(word, 0, 7)

RdOf(word) == field_get(word, 7, 5)

Func3Of(word) == field_get(word, 12, 3)

Rs1Of(word) == field_get(word, 15, 5)

Rs2Of(word) == field_get(word, 20, 5)

Func7Of(word) == field_get(word, 25, 7)

\* The two's complement number n of `bits` bits, sign-extended to 64 bits.
SextNat(n, bits) ==
    IF n >= 2 ^ (bits - 1) THEN BvSub(Usize(n), Usize(2 ^ bits)) ELSE Usize(n)

\* The I-immediate (bits 31:20), the S-immediate (bits 31:25 and 11:7), the
\* B-immediate and the J-immediate, sign-extended.
ImmI(word) == SextNat(field_get(word, 20, 12), 12)

ImmS(word) == SextNat(32 * field_get(word, 25, 7) + field_get(word, 7, 5), 12)

ImmB(word) ==
    SextNat(4096 * field_get(word, 31, 1) + 2048 * field_get(word, 7, 1)
               + 32 * field_get(word, 25, 6) + 2 * field_get(word, 8, 4), 13)

ImmJ(word) ==
    SextNat(1048576 * field_get(word, 31, 1) + 4096 * field_get(word, 12, 8)
               + 2048 * field_get(word, 20, 1) + 2 * field_get(word, 21, 10),
            21)

\* The width in bytes of a load or a store: the low two bits of func3.
WidthOf(word) == 2 ^ (Func3Of(word) % 4)

\* The W bytes of the memory m at the address a, extended to 64 bits with
\* the sign of the last byte (signed) or with zeros.
Extended(m, a, W, signed) ==
    LET top == m[OffsetOf(a) + W - 1]
    IN  from_le_bytes([i \in 1..8 |->
            IF i <= W THEN m[OffsetOf(a) + i - 1]
            ELSE IF signed /\ top >= 128 THEN 255 ELSE 0])

\* The step executes a load with rd # 0 whose I-type effective address lies
\* in the memory.
LoadInMemory ==
    /\ InsnStep
    /\ OpcodeOf(op'.word) = OPCODE_LOAD
    /\ Func3Of(op'.word) \in {FUNC3_LB, FUNC3_LH, FUNC3_LW, FUNC3_LD,
                              FUNC3_LBU, FUNC3_LHU, FUNC3_LWU}
    /\ RdOf(op'.word) # 0
    /\ Contained(BvAdd(registers[Rs1Of(op'.word)], ImmI(op'.word)),
                 WidthOf(op'.word))

\* C21: a load (LB, LH, LW, LD, LBU, LHU, LWU) with rd # 0 and the address
\* rs1 + sext(imm[31:20]) in the memory leaves in rd the little-endian value
\* of 1, 2, 4 or 8 bytes at that address, sign-extended for LB, LH, LW, LD
\* and zero-extended for LBU, LHU, LWU, and changes neither the memory nor
\* another register.
C21_LoadEndToEnd ==
    [][LoadInMemory =>
          LET word == op'.word
              A == BvAdd(registers[Rs1Of(word)], ImmI(word))
          IN  /\ op'.ok
              /\ registers' =
                    [registers EXCEPT
                        ![RdOf(word)] =
                           Extended(memory, A, WidthOf(word),
                                    Func3Of(word) < 4)]
              /\ memory' = memory]_vars

\* C21, the part that holds: no load changes a register or the memory.
C21_LoadChangesNothing ==
    [][(InsnStep /\ OpcodeOf(op'.word) = OPCODE_LOAD) =>
          registers' = registers /\ memory' = memory]_vars

\* The step executes a store (SB, SH, SW, SD).
StoreStep ==
    /\ InsnStep
    /\ OpcodeOf(op'.word) = OPCODE_STORE
    /\ Func3Of(op'.word) \in {FUNC3_SB, FUNC3_SH, FUNC3_SW, FUNC3_SD}

\* C22: SB, SH, SW, SD store the low 1, 2, 4, 8 bytes of rs2, little-endian,
\* at rs1 + the sign-extended S-immediate (64-bit wrapping), where that
\* range lies in the memory; the bytes outside of the range and all the
\* registers are unchanged.
C22_StoreWidths ==
    [][StoreStep =>
          \A off \in {OffsetOf(BvAdd(registers[Rs1Of(op'.word)],
                                     ImmS(op'.word)))} :
          \A W \in {WidthOf(op'.word)} :
          \A stored \in {to_le_bytes(registers[Rs2Of(op'.word)], 8)} :
             /\ registers' = registers
             /\ off + W <= MEMORY_SIZE => op'.ok
             /\ memory' =
                   [i \in 0..(MEMORY_SIZE - 1) |->
                       IF off + W <= MEMORY_SIZE /\ off <= i /\ i < off + W
                       THEN stored[i - off + 1]
                       ELSE memory[i]]]_vars

\* After LR.D t0, (a1) has put 0x84030201EDFE0DD0 in t0, SW t0, -4(a1) has
\* stored d0 0d fe ed in the four bytes before the data, leaving the last
\* byte of the kernel before them and the data behind them.
C22_Witness ==
    /\ op.name = "insn" /\ op.ok
    /\ op.word = EncS(OPCODE_STORE, FUNC3_SW, A1, T0, Imm(-4, 12))
    /\ registers[T0] = Hex(<<8, 4, 0, 3, 0, 2, 0, 1, 14, 13, 15, 14, 0, 13, 13, 0>>, 64)
    /\ registers[A1] = MemAddr(DataOffset)
    /\ [i \in 0..3 |-> memory[DataOffset - 4 + i]] =
          [i \in 0..3 |-> Dtb8[i + 1]]
    /\ memory[DataOffset - 5] = op.word[2] \div 256
    /\ [i \in 0..7 |-> memory[DataOffset + i]] = [i \in 0..7 |-> Dtb8[i + 1]]

\* The step executes a conditional branch.
BranchStep ==
    /\ InsnStep
    /\ OpcodeOf(op'.word) = OPCODE_BRANCH
    /\ Func3Of(op'.word) \in {FUNC3_BEQ, FUNC3_BNE, FUNC3_BLT, FUNC3_BGE,
                              FUNC3_BLTU, FUNC3_BGEU}

\* The comparison of the branch with the func3, of a and b.
Compares(func3, a, b) ==
    IF func3 = FUNC3_BEQ THEN a = b
    ELSE IF func3 = FUNC3_BNE THEN a # b
    ELSE IF func3 = FUNC3_BLT THEN BvSLess(a, b)
    ELSE IF func3 = FUNC3_BGE THEN ~BvSLess(a, b)
    ELSE IF func3 = FUNC3_BLTU THEN BvULess(a, b)
    ELSE ~BvULess(a, b)

\* The branch of the step is taken.
BranchTaken ==
    Compares(Func3Of(op'.word), registers[Rs1Of(op'.word)],
             registers[Rs2Of(op'.word)])

\* C23: BEQ, BNE, BLT, BGE (signed), BLTU, BGEU (unsigned), for every value
\* of rs1 and rs2 and every B-immediate, 0 included: the PC becomes the PC
\* plus the sign-extended immediate when the comparison is true and the PC
\* plus 4 when it is false; no register and no memory byte changes.
C23_Branch ==
    [][BranchStep =>
          /\ op'.ok
          /\ pc' = IF BranchTaken THEN BvAdd(pc, ImmB(op'.word))
                   ELSE BvAdd(pc, Usize(4))
          /\ registers' = registers
          /\ memory' = memory]_vars

\* C23, the part that holds: the branches whose comparison is false or
\* whose immediate is not 0.
C23_BranchNotToItself ==
    [][(BranchStep /\ ~(BranchTaken /\ ImmB(op'.word) = BvZero(64))) =>
          /\ op'.ok
          /\ pc' = IF BranchTaken THEN BvAdd(pc, ImmB(op'.word))
                   ELSE BvAdd(pc, Usize(4))
          /\ registers' = registers
          /\ memory' = memory]_vars

\* The registers after the old PC + 4 is written to rd (x0 stays 0).
Linked(word) ==
    IF RdOf(word) = 0 THEN registers
    ELSE [registers EXCEPT ![RdOf(word)] = BvAdd(pc, Usize(4))]

\* C24: JAL writes the old PC + 4 to rd and sets the PC to the old PC plus
\* the sign-extended J-immediate; JALR sets the PC to (rs1 + the
\* sign-extended I-immediate) with bit 0 cleared, computed from the value
\* that rs1 had before the instruction (also when rd = rs1), and writes the
\* old PC + 4 to rd.
C24_JalJalr ==
    [][(InsnStep /\ OpcodeOf(op'.word) \in {OPCODE_JAL, OPCODE_JALR}) =>
          /\ op'.ok
          /\ registers' = Linked(op'.word)
          /\ memory' = memory
          /\ pc' = IF OpcodeOf(op'.word) = OPCODE_JAL
                   THEN BvAdd(pc, ImmJ(op'.word))
                   ELSE BvAnd(BvAdd(registers[Rs1Of(op'.word)],
                                    ImmI(op'.word)),
                              BvNot(Usize(1)))]_vars

\* jalr a1, a1, -8 as the third instruction, with a1 the address of the
\* data: the PC is the old a1 - 8 and a1 is the address behind
\* the jalr.
C24_Witness ==
    /\ op.name = "insn" /\ op.ok
    /\ op.word = EncI(OPCODE_JALR, A1, 0, A1, Imm(-8, 12))
    /\ op.address = MemAddr(8)
    /\ pc = MemAddr(DataOffset - 8)
    /\ registers[A1] = MemAddr(12)

\* 0x008000EF (jal x1, +8) as the third instruction: x1 is the address
\* behind the jal and the PC is 8 beyond the jal.
C24_JalExample ==
    /\ op.name = "insn" /\ op.ok
    /\ op.word = Hex(<<0, 0, 8, 0, 0, 0, 14, 15>>, 32)
    /\ op.address = MemAddr(8)
    /\ registers[1] = MemAddr(12)
    /\ pc = MemAddr(16)

\* The registers after v is written to rd (x0 stays 0).
Written(word, v) ==
    IF RdOf(word) = 0 THEN registers
    ELSE [registers EXCEPT ![RdOf(word)] = v]

\* 1 when the condition holds, else 0, as a register value.
Flag(b) == IF b THEN Usize(1) ELSE Usize(0)

\* The value that ADDI, SLTI, SLTIU, XORI, ORI, ANDI and SLLI give for the
\* register value a and the sign-extended immediate imm.
RegImmResult(func3, a, imm) ==
    IF func3 = FUNC3_ADDI THEN BvAdd(a, imm)
    ELSE IF func3 = FUNC3_SLTI THEN Flag(BvSLess(a, imm))
    ELSE IF func3 = FUNC3_SLTIU THEN Flag(BvULess(a, imm))
    ELSE IF func3 = FUNC3_XORI THEN BvXor(a, imm)
    ELSE IF func3 = FUNC3_ORI THEN BvOr(a, imm)
    ELSE IF func3 = FUNC3_ANDI THEN BvAnd(a, imm)
    ELSE ShlBits(a, field_get(imm, 0, 6))

\* C25: ADDI gives rd = rs1 + imm (mod 2^64), SLTI and SLTIU give 1 when
\* rs1 < imm (signed, unsigned) and 0 otherwise, XORI, ORI, ANDI give the
\* bitwise result, and SLLI gives rs1 << (imm & 0x3F), with imm the 12-bit
\* immediate sign-extended to 64 bits; nothing else changes.
C25_RegImm ==
    [][(/\ InsnStep
        /\ OpcodeOf(op'.word) = OPCODE_INT_REG_IMM
        /\ Func3Of(op'.word) \in {FUNC3_ADDI, FUNC3_SLTI, FUNC3_SLTIU,
                                  FUNC3_XORI, FUNC3_ORI, FUNC3_ANDI,
                                  FUNC3_SLLI}) =>
          /\ op'.ok
          /\ registers' =
                Written(op'.word,
                        RegImmResult(Func3Of(op'.word),
                                     registers[Rs1Of(op'.word)],
                                     ImmI(op'.word)))
          /\ memory' = memory
          /\ pc' = BvAdd(pc, Usize(4))]_vars

\* 0xFE010113 (addi x2, x2, -32) has executed after lui x2, 1 had put
\* 0x1000 in x2: x2 = 0x0FE0.
C25_Witness ==
    /\ op.name = "insn" /\ op.ok
    /\ op.word = Hex(<<15, 14, 0, 1, 0, 1, 1, 3>>, 32)
    /\ op.address = MemAddr(8)
    /\ registers[2] = Hex(<<15, 14, 0>>, 64)

\* 0x00100093 (addi x1, x0, 1) has executed: x1 = 1.
C25_AddiExample ==
    /\ op.name = "insn" /\ op.ok
    /\ op.word = Hex(<<0, 0, 1, 0, 0, 0, 9, 3>>, 32)
    /\ registers[1] = Usize(1)

\* The step executes an INT_REG_IMM instruction with funct3 = 5.
ShiftRightStep ==
    /\ InsnStep
    /\ OpcodeOf(op'.word) = OPCODE_INT_REG_IMM
    /\ Func3Of(op'.word) = FUNC3_SRLI

\* C26: INT_REG_IMM with funct3 = 5 shifts rs1 to the right by
\* shamt = imm & 0x3F, arithmetically (the sign bit is replicated) when bit
\* 30 of the instruction is set, logically (zeros are shifted in) when it is
\* clear.
C26_ShiftRight ==
    [][ShiftRightStep =>
          /\ op'.ok
          /\ registers' =
                Written(op'.word,
                        IF field_get(op'.word, 30, 1) = 1
                        THEN BvSar(registers[Rs1Of(op'.word)],
                                   field_get(op'.word, 20, 6))
                        ELSE BvShr(registers[Rs1Of(op'.word)],
                                   field_get(op'.word, 20, 6)))]_vars

\* C26, what the code does: the logical shift when bit 30 is set, the
\* arithmetic one when it is clear.
C26_ShiftRightInverted ==
    [][ShiftRightStep =>
          /\ op'.ok
          /\ registers' =
                Written(op'.word,
                        IF field_get(op'.word, 30, 1) = 1
                        THEN BvShr(registers[Rs1Of(op'.word)],
                                   field_get(op'.word, 20, 6))
                        ELSE BvSar(registers[Rs1Of(op'.word)],
                                   field_get(op'.word, 20, 6)))]_vars

\* The step executes ADDIW, SLLIW or funct3 = 5 (SRLIW, SRAIW) of
\* INT_REG_IMM_32.
Imm32Step ==
    /\ InsnStep
    /\ OpcodeOf(op'.word) = OPCODE_INT_REG_IMM_32
    /\ Func3Of(op'.word) \in {FUNC3_ADDIW, FUNC3_SLLIW, FUNC3_SRLIW}

\* The 32-bit result of ADDIW, SLLIW, SRLIW, SRAIW for the low 32 bits a of
\* rs1.
Imm32Result(word, a) ==
    IF Func3Of(word) = FUNC3_ADDIW THEN BvAdd(a, BvTrunc(ImmI(word), 32))
    ELSE IF Func3Of(word) = FUNC3_SLLIW THEN BvShl(a, Rs2Of(word))
    ELSE IF field_get(word, 30, 1) = 1 THEN BvSar(a, Rs2Of(word))
    ELSE BvShr(a, Rs2Of(word))

\* C27: ADDIW, SLLIW, SRLIW and SRAIW operate on the low 32 bits of rs1 (the
\* sum with the sign-extended immediate, the shift by the amount in bits
\* 24:20 of the instruction) and write to rd the 32-bit result sign-extended
\* to 64 bits.
C27_RegImm32 ==
    [][Imm32Step =>
          /\ op'.ok
          /\ registers' =
                Written(op'.word,
                        BvSext(Imm32Result(op'.word,
                                  BvTrunc(registers[Rs1Of(op'.word)], 32)),
                               64))]_vars

\* C27, the part that holds: ADDIW.
C27_Addiw ==
    [][(Imm32Step /\ Func3Of(op'.word) = FUNC3_ADDIW) =>
          /\ op'.ok
          /\ registers' =
                Written(op'.word,
                        BvSext(Imm32Result(op'.word,
                                  BvTrunc(registers[Rs1Of(op'.word)], 32)),
                               64))]_vars

\* The step executes an INT_REG_REG instruction with funct3 = 0.
AddSubStep ==
    /\ InsnStep
    /\ OpcodeOf(op'.word) = OPCODE_INT_REG_REG
    /\ Func3Of(op'.word) = FUNC3_ADD

\* rs1 + rs2 when bit 30 of the instruction is clear, rs1 - rs2 when it is
\* set.
AddSubResult(word) ==
    IF field_get(word, 30, 1) = 0
    THEN BvAdd(registers[Rs1Of(word)], registers[Rs2Of(word)])
    ELSE BvSub(registers[Rs1Of(word)], registers[Rs2Of(word)])

\* C28: INT_REG_REG with funct3 = 0 and any funct7 gives rd = rs1 + rs2
\* (mod 2^64) when bit 5 of funct7 (bit 30 of the instruction) is clear and
\* rd = rs1 - rs2 (mod 2^64) when it is set.
C28_AddSub ==
    [][AddSubStep =>
          /\ op'.ok
          /\ registers' = Written(op'.word, AddSubResult(op'.word))]_vars

\* C28, the part that holds: funct7 = 0 (ADD) and funct7 = 0x20 (SUB).
C28_AddSubProper ==
    [][(AddSubStep /\ Func7Of(op'.word) \in {FUNC7_ADD, FUNC7_SUB}) =>
          /\ op'.ok
          /\ registers' = Written(op'.word, AddSubResult(op'.word))]_vars

\* 0x00208133 (add x2, x1, x2) has executed with x1 = 5 and x2 = 7: x2 = 12.
C28_AddExample ==
    /\ op.name = "insn" /\ op.ok
    /\ op.word = Hex(<<0, 0, 2, 0, 8, 1, 3, 3>>, 32)
    /\ registers[1] = Usize(5)
    /\ registers[2] = Usize(12)

\* The value that SLL (funct3 1), SLT (2), SLTU (3), XOR (4), SRL and SRA
\* (5), OR (6), AND (7) give for the register values a and b.
RegRegResult(word, a, b) ==
    IF Func3Of(word) = 1 THEN ShlBits(a, field_get(b, 0, 6))
    ELSE IF Func3Of(word) = 2 THEN Flag(BvSLess(a, b))
    ELSE IF Func3Of(word) = 3 THEN Flag(BvULess(a, b))
    ELSE IF Func3Of(word) = 4 THEN BvXor(a, b)
    ELSE IF Func3Of(word) = 5
    THEN IF field_get(word, 30, 1) = 1 THEN BvSar(a, field_get(b, 0, 6))
         ELSE BvShr(a, field_get(b, 0, 6))
    ELSE IF Func3Of(word) = 6 THEN BvOr(a, b)
    ELSE BvAnd(a, b)

\* C29: the INT_REG_REG instructions SLL, SRL, SRA, SLT, SLTU, XOR, OR, AND
\* execute without terminating the emulator and write to rd the shift of rs1
\* by rs2 & 0x3F, 1 or 0 for rs1 < rs2 (signed, unsigned), and the bitwise
\* result.
C29_RegReg ==
    [][(/\ InsnStep
        /\ OpcodeOf(op'.word) = OPCODE_INT_REG_REG
        /\ Func3Of(op'.word) # FUNC3_ADD
        /\ Func7Of(op'.word) \in
              (IF Func3Of(op'.word) = 5 THEN {FUNC7_ADD, FUNC7_SUB}
               ELSE {FUNC7_ADD})) =>
          /\ op'.ok
          /\ registers' =
                Written(op'.word,
                        RegRegResult(op'.word, registers[Rs1Of(op'.word)],
                                     registers[Rs2Of(op'.word)]))]_vars

\* C29, what the code does: every INT_REG_REG instruction with funct3 # 0
\* terminates the emulator and changes nothing.
C29_RegRegPanics ==
    [][(/\ InsnStep
        /\ OpcodeOf(op'.word) = OPCODE_INT_REG_REG
        /\ Func3Of(op'.word) # FUNC3_ADD) =>
          /\ ~op'.ok
          /\ phase' = "panicked"
          /\ registers' = registers]_vars

\* The step executes CSRRW or CSRRWI.
CsrWriteStep ==
    /\ InsnStep
    /\ OpcodeOf(op'.word) = OPCODE_SYSTEM
    /\ Func3Of(op'.word) \in {FUNC3_CSRRW, FUNC3_CSRRWI}

\* C30: after CSRRW (CSRRWI) on the CSR c = imm & 0xFFF, read_csr(c) returns
\* the value that rs1 had before the instruction (the 5-bit immediate in the
\* rs1 field, zero-extended), and rd, when it is not x0, holds the value
\* that the CSR c held before the instruction.
C30_CsrWrite ==
    [][CsrWriteStep =>
          /\ op'.ok
          /\ registers' =
                Written(op'.word, read_csr(field_get(op'.word, 20, 12)))
          /\ read_csr(field_get(op'.word, 20, 12)) =
                IF Func3Of(op'.word) = FUNC3_CSRRW
                THEN registers[Rs1Of(op'.word)]
                ELSE Usize(Rs1Of(op'.word))]_vars

\* C30, the part that holds: CSRRW and CSRRWI write 0, the value that every
\* read of a CSR returns, to rd and change nothing else.
C30_CsrReadsZero ==
    [][CsrWriteStep =>
          /\ op'.ok
          /\ registers' = Written(op'.word, BvZero(64))
          /\ memory' = memory]_vars

(***************************************************************************)
(* The CSRs, the upper immediates, the AMOs, the accesses outside of every *)
(* device, and LR and SC in sequence                                       *)
(***************************************************************************)

\* The step executes CSRRS, CSRRC, CSRRSI or CSRRCI.
CsrSetClearStep ==
    /\ InsnStep
    /\ OpcodeOf(op'.word) = OPCODE_SYSTEM
    /\ Func3Of(op'.word) \in {FUNC3_CSRRS, FUNC3_CSRRC, FUNC3_CSRRSI,
                              FUNC3_CSRRCI}

\* The mask of the instruction: the value of rs1, or the rs1 field itself
\* for the immediate forms.
CsrMask(word) ==
    IF Func3Of(word) \in {FUNC3_CSRRS, FUNC3_CSRRC}
    THEN registers[Rs1Of(word)]
    ELSE Usize(Rs1Of(word))

\* The value CSRRS, CSRRC, CSRRSI, CSRRCI leave in a CSR that held old.
CsrSetClearResult(word, old) ==
    IF Rs1Of(word) = 0 THEN old
    ELSE IF Func3Of(word) \in {FUNC3_CSRRS, FUNC3_CSRRSI}
    THEN BvOr(old, CsrMask(word))
    ELSE BvAnd(old, BvNot(CsrMask(word)))

\* C31: CSRRS, CSRRC, CSRRSI, CSRRCI on the CSR c that held old write old to
\* rd and leave in c, as read_csr(c) then returns, old | mask for the set
\* forms and old & ~mask for the clear forms, the mask being the value of
\* rs1 or the 5-bit immediate; the CSR is unchanged when the rs1 field is 0.
C31_CsrSetClear ==
    [][CsrSetClearStep =>
          \A old \in {read_csr(field_get(op'.word, 20, 12))} :
             /\ op'.ok
             /\ registers' = Written(op'.word, old)
             /\ read_csr(field_get(op'.word, 20, 12)) =
                   CsrSetClearResult(op'.word, old)]_vars

\* C31, the part that holds: rd receives 0, the value that every read of a
\* CSR returns, and nothing else changes.
C31_CsrSetClearReadsZero ==
    [][CsrSetClearStep =>
          /\ op'.ok
          /\ registers' = Written(op'.word, BvZero(64))
          /\ memory' = memory]_vars

\* The U-immediate: bits 31:12 of the word in place, the bits below them 0,
\* sign-extended from bit 31 to 64 bits.
ImmU(word) ==
    <<4096 * field_get(word, 12, 4), field_get(word, 16, 16),
      65535 * field_get(word, 31, 1), 65535 * field_get(word, 31, 1)>>

\* C32: LUI writes to rd the U-immediate (bits 31:12 of the instruction,
\* shifted left by 12) sign-extended from bit 31 to 64 bits; AUIPC writes
\* the PC of the instruction plus that immediate (mod 2^64); both advance
\* the PC by 4 and change nothing else.
C32_UpperImmediate ==
    [][(InsnStep /\ OpcodeOf(op'.word) \in {OPCODE_LUI, OPCODE_AUIPC}) =>
          /\ op'.ok
          /\ registers' =
                Written(op'.word,
                        IF OpcodeOf(op'.word) = OPCODE_LUI
                        THEN ImmU(op'.word)
                        ELSE BvAdd(pc, ImmU(op'.word)))
          /\ pc' = BvAdd(pc, Usize(4))
          /\ memory' = memory
          /\ reservation_sets' = reservation_sets]_vars

\* 0x00000097 (auipc x1, 0) has executed as the third instruction after
\* lui x1, 0x80000: x1 is the address of the auipc and the PC is 4 beyond
\* it.
C32_Witness ==
    /\ op.name = "insn" /\ op.ok
    /\ op.word = Hex(<<0, 0, 0, 0, 0, 0, 9, 7>>, 32)
    /\ op.address = MemAddr(8)
    /\ ValueAt(memory, MEMORY_BASE, 4) = EncU(OPCODE_LUI, 1, 524288)
    /\ registers[1] = MemAddr(8)
    /\ pc = MemAddr(12)

\* lui x1, 0x80000 has executed: x1 = 0xFFFFFFFF80000000.
C32_LuiNegative ==
    /\ op.name = "insn" /\ op.ok
    /\ op.word = EncU(OPCODE_LUI, 1, 524288)
    /\ registers[1] = Hex(<<15, 15, 15, 15, 15, 15, 15, 15, 8, 0, 0, 0, 0, 0, 0, 0>>, 64)

\* func7 without aq and rl: the operation of an atomic instruction.
Func5Of(word) == (Func7Of(word) \div 4) * 4

\* The step executes AMOADD, AMOAND, AMOOR, AMOXOR or AMOSWAP, .W or .D, on
\* an address whose range lies in the memory.
AmoStep ==
    /\ InsnStep
    /\ OpcodeOf(op'.word) = OPCODE_ATOMIC
    /\ Func5Of(op'.word) \in {FUNC7_AMOADD, FUNC7_AMOAND, FUNC7_AMOOR,
                              FUNC7_AMOXOR, FUNC7_AMOSWAP}
    /\ Func3Of(op'.word) \in {FUNC3_RV32_ATOMIC, FUNC3_RV64_ATOMIC}
    /\ Contained(registers[Rs1Of(op'.word)], AccessWidth(op'.word))

\* op(val, r2) for the values val and r2 of the width of the AMO; the sum is
\* taken modulo 2^W.
AmoResult(func5, val, r2) ==
    IF func5 = FUNC7_AMOADD THEN BvAdd(val, r2)
    ELSE IF func5 = FUNC7_AMOAND THEN BvAnd(val, r2)
    ELSE IF func5 = FUNC7_AMOOR THEN BvOr(val, r2)
    ELSE IF func5 = FUNC7_AMOXOR THEN BvXor(val, r2)
    ELSE r2

\* The effects of the AMO of the step, for the offset off of its address,
\* its width W and its result new: the memory holds new at the address, rd
\* holds the old value there, sign-extended.
AmoEffects(off, W, new) ==
    /\ memory' =
          [i \in 0..(MEMORY_SIZE - 1) |->
              IF off <= i /\ i < off + W THEN to_le_bytes(new, W)[i - off + 1]
              ELSE memory[i]]
    /\ registers' =
          Written(op'.word,
                  Extended(memory, registers[Rs1Of(op'.word)], W, TRUE))

\* The result of the AMO of the step, from the memory and the registers
\* before it.
AmoNew ==
    AmoResult(Func5Of(op'.word),
              ValueAt(memory, registers[Rs1Of(op'.word)],
                      AccessWidth(op'.word)),
              BvTrunc(registers[Rs2Of(op'.word)],
                      8 * AccessWidth(op'.word)))

\* C33: every AMO (ADD, AND, OR, XOR, SWAP; 32 or 64 bits), whatever the
\* registers, rd = rs2 and rd = rs1 included, completes (the sum is taken
\* modulo 2^W), leaves at the address in rs1 op(val, low W bits of rs2) for
\* the value val that was there and the value that rs2 had before the
\* instruction, and leaves val sign-extended in rd.
C33_Amo ==
    [][AmoStep =>
          \A off \in {OffsetOf(registers[Rs1Of(op'.word)])} :
          \A new \in {AmoNew} :
             /\ op'.ok
             /\ AmoEffects(off, AccessWidth(op'.word), new)]_vars

\* C33, the part that holds: the AMOs that complete and whose rd is x0 or
\* differs from rs2.
C33_AmoOtherRegister ==
    [][(/\ AmoStep
        /\ op'.ok
        /\ RdOf(op'.word) = 0 \/ RdOf(op'.word) # Rs2Of(op'.word)) =>
          \A off \in {OffsetOf(registers[Rs1Of(op'.word)])} :
          \A new \in {AmoNew} :
             AmoEffects(off, AccessWidth(op'.word), new)]_vars

\* C33, the part that holds: an AMO is aborted only when it is AMOADD and the
\* sum, of the loaded value and the value that rs2 has once rd is written,
\* exceeds the width.
C33_AmoAbortsOnOverflowOnly ==
    [][(AmoStep /\ ~op'.ok) =>
          /\ Func5Of(op'.word) = FUNC7_AMOADD
          /\ BvAddOverflows(
                ValueAt(memory, registers[Rs1Of(op'.word)],
                        AccessWidth(op'.word)),
                BvTrunc(registers'[Rs2Of(op'.word)],
                        8 * AccessWidth(op'.word)))]_vars

\* No device covers the address: it lies outside of the memory.
Uncovered(address) == OffsetOf(address) >= MEMORY_SIZE

\* The step executes a store whose address no device covers.
StoreOutside ==
    /\ StoreStep
    /\ Uncovered(BvAdd(registers[Rs1Of(op'.word)], ImmS(op'.word)))

\* The step executes a load whose address no device covers.
LoadOutside ==
    /\ InsnStep
    /\ OpcodeOf(op'.word) = OPCODE_LOAD
    /\ Func3Of(op'.word) \in {FUNC3_LB, FUNC3_LH, FUNC3_LW, FUNC3_LD,
                              FUNC3_LBU, FUNC3_LHU, FUNC3_LWU}
    /\ Uncovered(BvAdd(registers[Rs1Of(op'.word)], ImmI(op'.word)))

\* The instruction had no effect but to advance the PC by 4, and the
\* emulator goes on.
Skipped ==
    /\ op'.ok
    /\ phase' = "running"
    /\ memory' = memory
    /\ registers' = registers
    /\ pc' = BvAdd(pc, Usize(4))

\* C34: a load or a store whose effective address is covered by no device
\* does not terminate the emulator: the memory and the registers are
\* unchanged, the PC advances by 4 and the emulator goes on to the next
\* instruction.
C34_NoDevice ==
    [][(StoreOutside \/ LoadOutside) => Skipped]_vars

\* C34, the part that holds: the stores.
C34_StoreNoDevice ==
    [][StoreOutside => Skipped]_vars

\* C34, what the code does for the loads: the emulator terminates.
C34_LoadNoDeviceAborts ==
    [][(/\ LoadOutside
        /\ Uncovered(BvAdd(registers[Rs1Of(op'.word)], ImmS(op'.word)))) =>
          ~op'.ok /\ phase' = "panicked"]_vars

\* The instruction word at the offset n of the memory m.
WordAt(m, n) == ValueAt(m, MemAddr(n), 4)

\* The two instructions before this step were those at the offsets 0 and 4
\* of the memory, and both completed.
ThirdStep ==
    /\ InsnStep
    /\ steps = 2
    /\ op.name = "insn" /\ op.ok
    /\ op.prev = <<"insn", TRUE>>
    /\ op.address = MemAddr(4)
    /\ pc = MemAddr(8)

\* The step is an SC that follows LR at A and LR at B, whose address
\* registers still hold A and B.
TwoLrThenSc ==
    /\ ThirdStep
    /\ IsAtomic(WordAt(memory, 0), FUNC7_LR)
    /\ IsAtomic(op.word, FUNC7_LR)
    /\ IsAtomic(op'.word, FUNC7_SC)
    /\ RdOf(WordAt(memory, 0)) # Rs1Of(WordAt(memory, 0))
    /\ RdOf(op.word) \notin {Rs1Of(WordAt(memory, 0)), Rs1Of(op.word)}

\* The registers and the memory after an SC that failed.
ScFailed ==
    /\ registers' = Written(op'.word, Usize(1))
    /\ memory' = memory

\* The registers and the memory after an SC that succeeded at the offset
\* off.
ScSucceeded(off) ==
    /\ registers' = Written(op'.word, BvZero(64))
    /\ memory' =
          [i \in 0..(MEMORY_SIZE - 1) |->
              IF off <= i /\ i < off + AccessWidth(op'.word)
              THEN to_le_bytes(registers[Rs2Of(op'.word)], 8)[i - off + 1]
              ELSE memory[i]]

\* C35: a hart holds one reservation, which each LR replaces: after LR at A
\* and then LR at B, the reservation is the one at B; an SC at A whose range
\* does not overlap the reservation at B fails (rd = 1, memory unchanged),
\* and an SC at B succeeds (rd = 0).
C35_LrReplaces ==
    [][TwoLrThenSc =>
          \A A \in {registers[Rs1Of(WordAt(memory, 0))]} :
          \A B \in {registers[Rs1Of(op.word)]} :
          \A S \in {registers[Rs1Of(op'.word)]} :
             /\ op'.ok
             /\ reservation_sets[HART_ID + 1].valid
             /\ reservation_sets[HART_ID + 1].address = B
             /\ (S = A /\ ~Intersects(B, AccessWidth(op.word), S,
                                      AccessWidth(op'.word)))
                   => ScFailed
             /\ S = B => ScSucceeded(OffsetOf(B))]_vars

\* LR.D t0, (a1) has loaded the address 8 beyond a1, LR.W t1, (t0) has
\* reserved it, and SC.W t2, t1, (a1) has failed.
C35_Witness ==
    /\ op.name = "insn" /\ op.ok
    /\ op.prev = <<"insn", TRUE>>
    /\ op.address = MemAddr(8)
    /\ op.word = LrSc(FUNC7_SC, T2, FUNC3_RV32_ATOMIC, A1, T1)
    /\ WordAt(memory, 0) = LrSc(FUNC7_LR, T0, FUNC3_RV64_ATOMIC, A1, 0)
    /\ WordAt(memory, 4) = LrSc(FUNC7_LR, T1, FUNC3_RV32_ATOMIC, T0, 0)
    /\ registers[T0] = MemAddr(DataOffset + 8)
    /\ registers[T2] = Usize(1)
    /\ reservation_sets[HART_ID + 1].address = MemAddr(DataOffset + 8)

\* SC.D t2, t1, (t0), at the address of the second LR, has succeeded.
C35_ScAtSecond ==
    /\ op.name = "insn" /\ op.ok
    /\ op.prev = <<"insn", TRUE>>
    /\ op.address = MemAddr(8)
    /\ op.word = LrSc(FUNC7_SC, T2, FUNC3_RV64_ATOMIC, T0, T1)
    /\ WordAt(memory, 0) = LrSc(FUNC7_LR, T0, FUNC3_RV64_ATOMIC, A1, 0)
    /\ WordAt(memory, 4) = LrSc(FUNC7_LR, T1, FUNC3_RV32_ATOMIC, T0, 0)
    /\ registers[T0] = MemAddr(DataOffset + 4)
    /\ registers[T2] = BvZero(64)
    /\ ~reservation_sets[HART_ID + 1].valid

\* The step is an SC at the address A of the LR at the offset 0, after a
\* store or an AMO of the same hart at the offset 4; the address register of
\* the LR still holds A.
OwnStoreThenSc ==
    /\ ThirdStep
    /\ IsAtomic(WordAt(memory, 0), FUNC7_LR)
    /\ \/ /\ OpcodeOf(op.word) = OPCODE_STORE
          /\ Func3Of(op.word) \in {FUNC3_SB, FUNC3_SH, FUNC3_SW, FUNC3_SD}
       \/ /\ OpcodeOf(op.word) = OPCODE_ATOMIC
          /\ Func5Of(op.word) \in {FUNC7_AMOADD, FUNC7_AMOAND, FUNC7_AMOOR,
                                   FUNC7_AMOXOR, FUNC7_AMOSWAP}
          /\ Func3Of(op.word) \in {FUNC3_RV32_ATOMIC, FUNC3_RV64_ATOMIC}
          /\ RdOf(op.word) # Rs1Of(WordAt(memory, 0))
    /\ IsAtomic(op'.word, FUNC7_SC)
    /\ RdOf(WordAt(memory, 0)) # Rs1Of(WordAt(memory, 0))
    /\ Rs1Of(op'.word) = Rs1Of(WordAt(memory, 0))

C39_AmoThenSc ==
    /\ op.name = "insn" /\ op.ok
    /\ op.prev = <<"insn", TRUE>>
    /\ op.address = MemAddr(8)
    /\ op.word = LrSc(FUNC7_SC, T2, FUNC3_RV64_ATOMIC, A1, T0)
    /\ WordAt(memory, 4) =
          EncR(OPCODE_ATOMIC, T1, FUNC3_RV64_ATOMIC, A1, T0, FUNC7_AMOSWAP)
    /\ registers[T2] = BvZero(64)
    /\ ~reservation_sets[HART_ID + 1].valid

\* The step is an SC.
ScStep ==
    /\ InsnStep
    /\ IsAtomic(op'.word, FUNC7_SC)

\* The step is an SC directly after the SC at the offset 4, with no LR in
\* between.
ScAfterSc ==
    /\ ThirdStep
    /\ IsAtomic(op.word, FUNC7_SC)
    /\ IsAtomic(op'.word, FUNC7_SC)

\* C40: after any SC that completes, successful or failed, the failure for
\* an address outside of the reservation included, the reservation of the
\* hart is invalid; an SC that follows it without a new LR fails (rd = 1,
\* memory unchanged).
C40_ScInvalidates ==
    [][/\ (ScStep /\ op'.ok) => ~reservation_sets'[HART_ID + 1].valid
       /\ ScAfterSc => (op'.ok /\ ScFailed)]_vars

\* C40, the part that holds: an SC that succeeds, and an SC without a valid
\* reservation, leave the reservation invalid; the reservation is never
\* changed otherwise by an SC.
C40_ScSuccessInvalidates ==
    [][(ScStep /\ op'.ok) =>
          /\ (registers' = Written(op'.word, BvZero(64))
              \/ ~reservation_sets[HART_ID + 1].valid)
                => ~reservation_sets'[HART_ID + 1].valid
          /\ (reservation_sets[HART_ID + 1].valid
              /\ registers' = Written(op'.word, Usize(1)))
                => reservation_sets' = reservation_sets]_vars

\* C40, the part that holds: an SC that follows a successful SC fails.
C40_ScAfterSuccessFails ==
    [][(ScAfterSc /\ ~reservation_sets[HART_ID + 1].valid) =>
          (op'.ok /\ ScFailed)]_vars

\* C40, what the code does: SC.W t1, t0, (x0) has failed outside of the
\* reservation and left it valid, and SC.W t2, t0, (a1) has then succeeded.
C40_ScAfterFailedSucceeds ==
    /\ op.name = "insn" /\ op.ok
    /\ op.prev = <<"insn", TRUE>>
    /\ op.address = MemAddr(8)
    /\ op.word = LrSc(FUNC7_SC, T2, FUNC3_RV32_ATOMIC, A1, T0)
    /\ WordAt(memory, 0) = LrSc(FUNC7_LR, T0, FUNC3_RV32_ATOMIC, A1, 0)
    /\ WordAt(memory, 4) = LrSc(FUNC7_SC, T1, FUNC3_RV32_ATOMIC, 0, T0)
    /\ registers[T1] = Usize(1)
    /\ registers[T2] = BvZero(64)

\* The step is a read_at, a write_at, of the register a.
ReadAtStep(a) ==
    /\ op'.name = "read_at"
    /\ steps' = steps + 1
    /\ op'.address = RegisterAddressInto(a)

WriteAtStep(a) ==
    /\ op'.name = "write_at"
    /\ steps' = steps + 1
    /\ op'.address = RegisterAddressInto(a)

\* The registers that write_at accepts.
WritableRegisters ==
    {"TransmitterHolding", "InterruptEnable", "LineControl", "ModemControl",
     "Scratch"}

\* write_at of the step on the register a is as the register table says:
\* Ok for a writable register, else DisallowedWrite and nothing changed.
WriteAtAsTable(a) ==
    IF a \in WritableRegisters
    THEN op'.ok
    ELSE /\ ~op'.ok
         /\ op'.err = "DisallowedWrite"
         /\ uart_registers' = uart_registers
         /\ output' = output

\* read_at of the step on the register a is as the register table says:
\* DisallowedRead for TransmitterHolding, else Ok; nothing is changed.
ReadAtAsTable(a) ==
    /\ IF a = "TransmitterHolding"
       THEN ~op'.ok /\ op'.err = "DisallowedRead"
       ELSE op'.ok
    /\ uart_registers' = uart_registers
    /\ output' = output

\* C36: read_at succeeds for every register but TransmitterHolding, for
\* which it returns DisallowedRead (ReceiverBuffer, InterruptIdent,
\* LineStatus and ModemStatus are readable); write_at succeeds for exactly
\* TransmitterHolding, InterruptEnable, LineControl, ModemControl and
\* Scratch, and returns DisallowedWrite, changing nothing, for
\* ReceiverBuffer, InterruptIdent, LineStatus and ModemStatus.
C36_RegisterPermissions ==
    [][\A i \in 1..Len(RegisterAddress) :
          /\ ReadAtStep(RegisterAddress[i]) =>
                ReadAtAsTable(RegisterAddress[i])
          /\ WriteAtStep(RegisterAddress[i]) =>
                WriteAtAsTable(RegisterAddress[i])]_vars

\* C36, the part that holds: write_at of every register, and read_at of
\* every register but InterruptIdent.
C36_AllButInterruptIdentRead ==
    [][\A i \in 1..Len(RegisterAddress) :
          /\ (ReadAtStep(RegisterAddress[i])
              /\ RegisterAddress[i] # "InterruptIdent") =>
                ReadAtAsTable(RegisterAddress[i])
          /\ WriteAtStep(RegisterAddress[i]) =>
                WriteAtAsTable(RegisterAddress[i])]_vars

\* C36, what the code does: read_at of InterruptIdent returns
\* DisallowedRead.
C36_InterruptIdentUnreadable ==
    [][ReadAtStep("InterruptIdent") =>
          ~op'.ok /\ op'.err = "DisallowedRead"]_vars

\* A read_at has returned the byte that a write_at stored in the scratch
\* register.
C36_ScratchReadBack ==
    /\ op.name = "read_at" /\ op.ok
    /\ op.prev = <<"write_at", TRUE>>
    /\ op.address = RegisterAddressInto("Scratch")
    /\ op.ret = <<252>>

\* The instruction type that the decode table gives to a word, "none" for
\* an opcode that is not in it.
TableType(word) ==
    LET opcode == OpcodeOf(word)
    IN  IF opcode \in {OPCODE_LUI, OPCODE_AUIPC} THEN "U"
        ELSE IF opcode = OPCODE_JAL THEN "J"
        ELSE IF opcode \in {OPCODE_JALR, OPCODE_INT_REG_IMM, OPCODE_LOAD,
                            OPCODE_SYSTEM, OPCODE_MISCMEM} THEN "I"
        ELSE IF opcode = OPCODE_INT_REG_IMM_32
        THEN (IF Func3Of(word) = 0 THEN "I" ELSE "R")
        ELSE IF opcode \in {OPCODE_INT_REG_REG, OPCODE_ATOMIC,
                            OPCODE_INT_REG_REG_32} THEN "R"
        ELSE IF opcode = OPCODE_STORE THEN "S"
        ELSE IF opcode = OPCODE_BRANCH THEN "B"
        ELSE "none"

\* The decoded instruction insn has the fields of the word that the type t
\* uses.
FieldsOf(insn, word, t) ==
    /\ t \in {"U", "J", "I", "R"} => insn.rd = RdOf(word)
    /\ t \in {"I", "R", "S", "B"} =>
          insn.func3 = Func3Of(word) /\ insn.rs1 = Rs1Of(word)
    /\ t \in {"R", "S", "B"} => insn.rs2 = Rs2Of(word)
    /\ t = "R" => insn.func7 = Func7Of(word)

\* The immediate of the word in the layout of the type t, sign-extended into
\* 32 bits; the R-type has none.
ImmOf(word, t) ==
    IF t = "I" THEN BvTrunc(ImmI(word), 32)
    ELSE IF t = "S" THEN BvTrunc(ImmS(word), 32)
    ELSE IF t = "B" THEN BvTrunc(ImmB(word), 32)
    ELSE IF t = "U" THEN BvTrunc(ImmU(word), 32)
    ELSE IF t = "J" THEN BvTrunc(ImmJ(word), 32)
    ELSE BvZero(32)

\* A word of an opcode of the decode table has been parsed.
Parsed == op.name = "parse" /\ TableType(op.word) # "none"

\* C37: decoding maps every opcode of the decode table to the type the table
\* gives (LOAD to I and INT_REG_REG_32 to R among them) without aborting,
\* and extracts rd [11:7], func3 [14:12], rs1 [19:15], rs2 [24:20] and
\* func7 [31:25] for the fields that the type uses.
C37_DecodeTable ==
    Parsed =>
       /\ op.ok
       /\ op.ret # <<>>
       /\ op.ret[1].insn_type = TableType(op.word)
       /\ FieldsOf(op.ret[1], op.word, TableType(op.word))

\* C37, the part that holds: every opcode of the table but LOAD and
\* INT_REG_REG_32.
C37_DecodeTableButLoad ==
    (Parsed /\ OpcodeOf(op.word) \notin {OPCODE_LOAD, OPCODE_INT_REG_REG_32})
       =>
       /\ op.ok
       /\ op.ret[1].insn_type = TableType(op.word)
       /\ FieldsOf(op.ret[1], op.word, TableType(op.word))

\* C37, what the code does: a LOAD is decoded as an S-type, whose rd stays
\* 0, and INT_REG_REG_32 aborts.
C37_LoadIsS ==
    Parsed =>
       /\ OpcodeOf(op.word) = OPCODE_LOAD =>
             /\ op.ok
             /\ op.ret[1].insn_type = "S"
             /\ op.ret[1].rd = 0
             /\ FieldsOf(op.ret[1], op.word, "S")
       /\ OpcodeOf(op.word) = OPCODE_INT_REG_REG_32 =>
             ~op.ok /\ phase = "panicked"

\* C38: for every word of an opcode of the decode table, the decoded imm is
\* the immediate assembled from the layout of the type of the word (I, S, B,
\* U, J) and sign-extended into 32 bits; an I-type immediate field 0xFFF
\* gives -1, a B-type with the immediate bit 12 alone gives -4096.
C38_Immediate ==
    (Parsed /\ TableType(op.word) # "R") =>
       /\ op.ok
       /\ op.ret # <<>>
       /\ op.ret[1].imm = ImmOf(op.word, TableType(op.word))

\* C38, the part that holds: the immediate is the one of the layout of the
\* type that the decoder gave to the word.
C38_ImmediateOfDecodedType ==
    (Parsed /\ op.ok) =>
       op.ret[1].imm = ImmOf(op.word, op.ret[1].insn_type)

\* C38, the examples: the I-type with the field 0xFFF gives -1, the B-type
\* with the bit 31 alone gives -4096.
C38_Examples ==
    Parsed =>
       /\ op.word = EncI(OPCODE_INT_REG_IMM, 0, 0, 0, 4095) =>
             op.ret[1].imm = BvOnes(32)
       /\ op.word = EncB(0, 0, 0, 4096) =>
             op.ret[1].imm = Hex(<<15, 15, 15, 15, 15, 0, 0, 0>>, 32)

\* The B-type with the immediate bit 12 alone has been parsed.
C38_BranchExample ==
    /\ Parsed
    /\ op.word = EncB(0, 0, 0, 4096)
    /\ op.ret[1].imm = Hex(<<15, 15, 15, 15, 15, 0, 0, 0>>, 32)

\* What the code does: a LOAD whose rd field is not 0 and whose I-immediate
\* is 0 is decoded with a non-zero immediate.
C38_LoadImmediate ==
    /\ Parsed
    /\ OpcodeOf(op.word) = OPCODE_LOAD
    /\ ImmI(op.word) = BvZero(64)
    /\ op.ret[1].imm # BvZero(32)

\* The I-type with the immediate field 0xFFF alone has been parsed.
C38_ITypeExample ==
    /\ Parsed
    /\ op.word = EncI(OPCODE_INT_REG_IMM, 0, 0, 0, 4095)
    /\ op.ret[1].imm = BvOnes(32)

====
